---- MODULE Spec2Model ----
(***************************************************************************)
(* Repository engine of primal-pds (internal/repo): record writes on a     *)
(* signed Merkle Search Tree kept as content-addressed blocks in the       *)
(* tenant database (tables repo_blocks and repo_roots).                     *)
(*                                                                         *)
(* A request is a process.  Every database call of a request is one step;  *)
(* the in-memory work that follows a call is part of that step, except the *)
(* commit construction, which reads the wall clock and is a step of its    *)
(* own.  A CID is modelled by the content it hashes, so two blocks have    *)
(* the same CID exactly when they have the same bytes.                     *)
(***************************************************************************)
EXTENDS Integers, Sequences, FiniteSets, TLC

(* ------------------------------ bounds -------------------------------- *)

\* Number of operations started in one behaviour.
MaxOps == 3

\* Concurrent requests.
Procs == {1, 2}

\* Number of Emit calls started in one behaviour of the event manager.
MaxEmits == 3

\* Connections to subscribeRepos in one behaviour.
Subs == {1, 2}

\* Capacity of a subscriber's channel (256 in the code, Subscribe line 135).
QueueCap == 1

\* Repositories (accounts) of the tenant.
DIDs == {"did:a", "did:b"}

\* Characters are numbers; strings are sequences of characters.
Slash == 1
Collections == {<<2>>}
Rkeys == {<<2>>, <<3>>}

\* ListRecords: the largest limit a caller may ask for and the limit used
\* otherwise (100 and 50 in the code, lines 313-315).
ListMax == 3
ListDefault == 2

\* Number of PoolManager.Add calls started in one behaviour.
MaxAdds == 3

\* Hosted domains (tenants).
Domains == {"a.test", "b.test"}

\* Records as handed to PutRecord; "bad" does not parse in the data model.
Records == {"v1", "v2", "bad"}

Nil == <<>>

(* ----------------------------- strings -------------------------------- *)

Min(a, b) == IF a < b THEN a ELSE b

\* a < b in the byte-wise lexicographic order of Go strings.
LexLess(a, b) ==
    \E i \in 1..(Min(Len(a), Len(b)) + 1) :
        /\ \A j \in 1..(i - 1) : a[j] = b[j]
        /\ \/ i > Len(a) /\ i <= Len(b)
           \/ i <= Len(a) /\ i <= Len(b) /\ a[i] < b[i]

\* syntax.NewTIDClock(0).Next().String(): the clock is fresh, so the TID is
\* the wall clock, written with a fixed width in a sortable base-32 alphabet.
TidBase == 4
TidRadix == 32
TID(t) == << TidBase + ((t \div TidRadix) % TidRadix), TidBase + (t % TidRadix) >>

\* path := collection + "/" + rkey
Path(collection, rkey) == collection \o <<Slash>> \o rkey

(* ----------------------- blocks and their CIDs ------------------------- *)

\* EncodeRecord + ComputeCID: the DAG-CBOR block of a record.  The CID is
\* the hash of the bytes, so it depends on the record alone, not on the key.
EncodeRecord(record) == <<"rec", record>>

\* DecodeRecord: the record of a record block.
DecodeRecord(blk) == blk[2]

\* atdata.UnmarshalJSON accepts the record.
ValidRecord(record) == record # "bad"

\* indigorepo.Commit after Sign and MarshalCBOR (the signature is a
\* deterministic function of the other fields).
CommitBlock(did, prev, data, rev) == <<"commit", did, prev, data, rev>>
CommitPrev(c) == c[3]
CommitData(c) == c[4]
CommitRev(c) == c[5]
IsCommit(b) == b # Nil /\ b[1] = "commit"
IsNode(b) == b # Nil /\ b[1] = "node"
IsRec(b) == b # Nil /\ b[1] = "rec"

(* ------------------------- Merkle Search Tree -------------------------- *)
(* The tree of the indigo library: a key sits on the layer given by a hash *)
(* of the key; a node holds the keys of its layer in order, with a pointer *)
(* to the subtree left of the first key and one right of each key.  A node *)
(* is <<"node", left, entries>>, an entry <<key, value, right>>.  The tree  *)
(* in memory is the function from its keys to the record CIDs.             *)

RECURSIVE SumSeq(_)
SumSeq(s) == IF s = <<>> THEN 0 ELSE Head(s) + SumSeq(Tail(s))

\* Layer of a key (leading zeros of the key's hash in the library).
Height(k) == IF SumSeq(k) % 3 = 0 THEN 1 ELSE 0

RECURSIVE SortedKeys(_)
SortedKeys(S) ==
    IF S = {} THEN <<>>
    ELSE LET m == CHOOSE x \in S : \A y \in S \ {x} : LexLess(x, y)
         IN  <<m>> \o SortedKeys(S \ {m})

EmptyTree == [k \in {} |-> Nil]

\* tree.Get
TreeGet(T, k) == IF k \in DOMAIN T THEN T[k] ELSE Nil

\* tree.Insert: the new tree (the previous value is TreeGet of the old one).
TreeInsert(T, k, c) == [x \in (DOMAIN T) \cup {k} |-> IF x = k THEN c ELSE T[x]]

\* tree.Remove
TreeRemove(T, k) == [x \in (DOMAIN T) \ {k} |-> T[x]]

RECURSIVE MSTNode(_, _, _)
MSTNode(T, ks, L) ==
    LET top == {i \in 1..Len(ks) : Height(ks[i]) = L}
        After(i) == IF \E x \in top : x > i
                    THEN CHOOSE x \in top : x > i /\ \A y \in top : y > i => x <= y
                    ELSE Len(ks) + 1
        Child(seg) == IF seg = <<>> THEN Nil ELSE MSTNode(T, seg, L - 1)
        Nth(j) == CHOOSE i \in top : Cardinality({x \in top : x < i}) = j - 1
    IN  IF top = {}
        THEN <<"node", Child(ks), <<>>>>
        ELSE <<"node",
               Child(SubSeq(ks, 1, After(0) - 1)),
               [j \in 1..Cardinality(top) |->
                   <<ks[Nth(j)], T[ks[Nth(j)]],
                     Child(SubSeq(ks, Nth(j) + 1, After(Nth(j)) - 1))>>]>>

\* CID of the root node of the tree with content T.
MSTRoot(T) ==
    LET ks == SortedKeys(DOMAIN T)
        L  == IF \E k \in DOMAIN T : Height(k) = 1 THEN 1 ELSE 0
    IN  IF DOMAIN T = {} THEN <<"node", Nil, <<>>>> ELSE MSTNode(T, ks, L)

Range(s) == {s[i] : i \in DOMAIN s}

\* The node blocks of the subtree under node n, n included.
RECURSIVE NodeSet(_)
NodeSet(n) ==
    {n} \cup (IF n[2] = Nil THEN {} ELSE NodeSet(n[2]))
        \cup UNION {IF e[3] = Nil THEN {} ELSE NodeSet(e[3]) : e \in Range(n[3])}

\* The <<key, value>> pairs of the subtree under node n.
RECURSIVE NodeEntries(_)
NodeEntries(n) ==
    (IF n[2] = Nil THEN {} ELSE NodeEntries(n[2]))
        \cup UNION {{<<e[1], e[2]>>} \cup (IF e[3] = Nil THEN {} ELSE NodeEntries(e[3]))
                    : e \in Range(n[3])}

\* mst.LoadTreeFromStore succeeds: every node under root is in the store.
LoadTreeOK(mem, root) == NodeSet(root) \subseteq mem

\* mst.LoadTreeFromStore: the tree in memory.
LoadTree(root) ==
    LET es == NodeEntries(root)
    IN  [k \in {e[1] : e \in es} |-> (CHOOSE e \in es : e[1] = k)[2]]

\* tree.WriteDiffBlocks: the store after the dirty nodes are written.  A
\* node that is not dirty was loaded from the store and is in it already.
WriteDiffBlocks(mem, T) == mem \cup NodeSet(MSTRoot(T))

\* tree.Walk: the keys in ascending order.
TreeWalk(T) == SortedKeys(DOMAIN T)

\* TrackingBlockstore.ExportDiffCAR: the commit block first, then the blocks
\* that were not in the store when it was wrapped (map order: a set).
\* "commit block not found" when the root is not in the store.
ExportDiffCAR(mem, preloaded, commitCID) ==
    IF commitCID \notin mem
    THEN [status |-> "MissingRoot", root |-> Nil, rest |-> {}]
    ELSE [status |-> "ok", root |-> commitCID,
          rest |-> {b \in mem : b \notin preloaded /\ b # commitCID}]

\* MemBlockstore.ExportCAR: the commit block first, then every other block
\* of the store.
ExportCARWithRoot(mem, commitCID) ==
    [status |-> "ok", root |-> commitCID, rest |-> mem]
ExportCAR(mem, commitCID) ==
    IF commitCID \notin mem
    THEN [status |-> "MissingRoot", root |-> Nil, rest |-> {}]
    ELSE [status |-> "ok", root |-> commitCID, rest |-> mem \ {commitCID}]

\* All blocks of an archive.
CARBlocks(car) == {car.root} \cup car.rest

(* ------------------------------- state --------------------------------- *)

VARIABLES
    roots,      \* table repo_roots: DID -> <<commit_cid, rev>>, Nil if no row
    blocks,     \* table repo_blocks: DID -> set of blocks (cid = content)
    now,        \* wall clock at its last reading (microseconds, compacted)
    elapsed,    \* a database round trip has ended since that reading
    pc,         \* where each request stands
    op,         \* the operation each request executes, with its arguments
    loc,        \* the local variables of each request
    res,        \* what the last operation of each request returned
    nops,       \* operations started so far
    logical     \* DID -> key-to-record map built by the committed writes

VARIABLES
    events,     \* table firehose_events, rows in the order of their insertion
    lastSeq,    \* last value given out by the sequence of the seq column
    subs,       \* Manager.subs: the registered subscribers
    sub,        \* every subscriber: handler position, channel, replay task
    emit,       \* the Emit call of each request
    removing,   \* subscribers a goroutine of broadcast is about to delete
    crashed,    \* a goroutine has panicked with nothing to recover it
    nemits      \* Emit calls started so far

VARIABLES
    caller,     \* the auth context of the request each handler serves
    pools,      \* PoolManager.pools: domain -> registered pool, Nil if none
    openPools,  \* the connection pools that are open
    adds,       \* the PoolManager.Add call of each request
    stopped,    \* Manager.done is closed: Shutdown has been called
    list,       \* the listRecords iteration of a client
    archive,    \* the last archive written by an export
    replay,     \* a call of Persister.Replay with a callback of the caller's
    wire        \* the last event as stored, as broadcast and as replayed

repovars == <<roots, blocks, now, elapsed, pc, op, loc, res, nops, logical>>

firevars == <<events, lastSeq, subs, sub, emit, removing, crashed, nemits>>

srvvars == <<caller, pools, openPools, adds, stopped, list, archive, replay, wire>>

vars == <<roots, blocks, now, elapsed, pc, op, loc, res, nops, logical,
          events, lastSeq, subs, sub, emit, removing, crashed, nemits,
          caller, pools, openPools, adds, stopped, list, archive, replay, wire>>

NoOp == [kind |-> "none", did |-> "", collection |-> Nil, rkey |-> Nil,
         record |-> "", keyOK |-> TRUE]

NoLoc == [root |-> Nil, mem |-> {}, preloaded |-> {}, tree |-> EmptyTree,
          ops |-> Nil, commit |-> Nil, rev |-> Nil, diff |-> Nil]

NoRes == [status |-> "none", op |-> NoOp, out |-> Nil]

\* A connection that has not been made: no subscriber exists for it.
\*   state   where handleSubscribeRepos stands: "none", "live" (write loop),
\*           "leaving" (returned, cancel not yet run), "gone"
\*   since   the cursor, <<k>>, or Nil when the request carries none
\*   ch      the frames buffered in sub.ch, oldest first
\*   closed  sub.ch is closed;  done: sub.done is closed
\*   ctx     the context given to Subscribe is cancelled
\*   got     every frame ever placed on sub.ch, in order, with its origin
\*   replay  where the replay goroutine stands: "none", "query", "send",
\*           "end" (Replay returned nil or was cancelled), "failed"
\*   rows    the rows of the replay query not yet sent
NoSub == [state |-> "none", since |-> Nil, ch |-> <<>>, closed |-> FALSE,
          done |-> FALSE, ctx |-> FALSE, got |-> <<>>, replay |-> "none", rows |-> <<>>]

\* No Emit call in progress.
\*   pc      "idle", "persist" (before the INSERT), "lock" (before RLock),
\*           "broadcast" (in the loop, read lock held)
\*   todo    subscribers the loop of broadcast has not visited yet
\*   status  what the last Emit call returned
NoEmit == [pc |-> "idle", info |-> Nil, seq |-> 0, todo |-> {}, status |-> "none"]

\* No PoolManager.Add call in progress.
\*   pc      "idle", "ping" (the pool is open, before Ping), "schema" (before
\*           the Exec of TenantSchema), "publish" (before Lock)
\*   pool    the pool the call has opened; n: Add calls the request has made
\*   err     the error the last call returned, Nil for none
NoAdd == [pc |-> "idle", domain |-> "", pool |-> Nil, n |-> 0, err |-> Nil]

\* No listRecords call made yet.
\*   pc       "idle", "more" (the last page came with a cursor), "done" (it
\*            came with none), "once" (a call with a cursor of the client's
\*            own making)
\*   cursor   the cursor passed to the last call; next: the one it returned
\*   records  the page of the last call; acc: the rkeys of all pages so far
NoList == [pc |-> "idle", did |-> "", collection |-> Nil, limit |-> 0,
           reverse |-> FALSE, cursor |-> Nil, status |-> "none",
           records |-> <<>>, next |-> Nil, acc |-> <<>>]

\* No export made yet.
\*   kind  "none", "full" (ExportCAR) or "diff" (ExportDiffCAR)
\*   mem, preloaded, commit  the store exported and the root asked for
\*   out   what the export returned
NoArchive == [kind |-> "none", mem |-> {}, preloaded |-> {}, commit |-> Nil,
              out |-> Nil]

\* No call of Replay made yet.
\*   pc      "idle", "query" (before the SELECT), "rows" (in the loop over
\*           the rows), "done" (returned)
\*   n       the number of rows of the table when the SELECT ran
\*   rows    the frames of the rows the loop has not reached yet
\*   calls   the calls of fn made so far: the frame given, and whether fn
\*           returned nil
\*   result  the error returned: "nil", "db" or "fn"
NoReplay == [pc |-> "idle", since |-> 0, n |-> 0, rows |-> <<>>, calls |-> <<>>,
             result |-> "nil"]

\* No event followed from Emit to Replay yet.
\*   pc        "idle", "emitted" (Emit has stored and broadcast the event),
\*             "replayed" (Replay has read its row)
\*   payload   the payload column of the row;  seq: its seq column
\*   live      the frame Emit broadcast;  replayed: the frame Replay built
NoWire == [pc |-> "idle", seq |-> 0, payload |-> Nil, live |-> Nil, replayed |-> Nil]

SrvInit ==
    /\ caller = [p \in Procs |-> Nil]
    /\ pools = [d \in Domains |-> Nil]
    /\ openPools = {}
    /\ adds = [p \in Procs |-> NoAdd]
    /\ stopped = FALSE
    /\ list = NoList
    /\ archive = NoArchive
    /\ replay = NoReplay
    /\ wire = NoWire

FireInit ==
    /\ events = <<>>
    /\ lastSeq = 0
    /\ subs = {}
    /\ sub = [s \in Subs |-> NoSub]
    /\ emit = [p \in Procs |-> NoEmit]
    /\ removing = {}
    /\ crashed = FALSE
    /\ nemits = 0

Init ==
    /\ FireInit
    /\ SrvInit
    /\ roots = [d \in DIDs |-> Nil]
    /\ blocks = [d \in DIDs |-> {}]
    /\ now = 0
    /\ elapsed = FALSE
    /\ pc = [p \in Procs |-> "idle"]
    /\ op = [p \in Procs |-> NoOp]
    /\ loc = [p \in Procs |-> NoLoc]
    /\ res = [p \in Procs |-> NoRes]
    /\ nops = 0
    /\ logical = [d \in DIDs |-> EmptyTree]

\* The request returns: its locals are dropped.
Return(p, status, out) ==
    /\ pc' = [pc EXCEPT ![p] = "idle"]
    /\ res' = [res EXCEPT ![p] = [status |-> status, op |-> op[p], out |-> out]]
    /\ loc' = [loc EXCEPT ![p] = NoLoc]
    /\ op' = [op EXCEPT ![p] = NoOp]

\* A database round trip takes longer than the resolution of the clock: a
\* reading of the clock after one is later than every reading before it.
\* Readings with no round trip between them can fall in the same microsecond.
Tick == elapsed' = TRUE /\ now' = now

\* time.Now() as read by TIDClock.Next.
ClockNow == IF elapsed THEN now + 1 ELSE now

ReadClock == now' = ClockNow /\ elapsed' = FALSE

SameClock == UNCHANGED <<now, elapsed>>

Begin(p, o, at) ==
    /\ pc[p] = "idle"
    /\ nops < MaxOps
    /\ nops' = nops + 1
    /\ op' = [op EXCEPT ![p] = o]
    /\ pc' = [pc EXCEPT ![p] = at]
    /\ res' = [res EXCEPT ![p] = NoRes]
    /\ UNCHANGED <<roots, blocks, loc, logical>>
    /\ UNCHANGED firevars
    /\ UNCHANGED srvvars

\* A call that returns before it reaches the database.
Reject(p, o, status) ==
    /\ pc[p] = "idle"
    /\ nops < MaxOps
    /\ nops' = nops + 1
    /\ res' = [res EXCEPT ![p] = [status |-> status, op |-> o, out |-> Nil]]
    /\ UNCHANGED <<roots, blocks, pc, op, loc, logical>>
    /\ UNCHANGED firevars
    /\ UNCHANGED srvvars

\* Manager.InitRepo, up to the existence query.
StartInit(p, did, keyOK) ==
    /\ SameClock
    /\ Begin(p, [NoOp EXCEPT !.kind = "init", !.did = did, !.keyOK = keyOK], "initCheck")

\* Manager.PutRecord, up to openRepo: ParseKey, then the record is parsed,
\* encoded and hashed.
PutEntry(p, o) ==
    IF ~o.keyOK THEN Reject(p, o, "BadKey")
    ELSE IF ~ValidRecord(o.record) THEN Reject(p, o, "BadRecord")
    ELSE Begin(p, o, "loadRoot")

StartPut(p, did, collection, rkey, record, keyOK) ==
    /\ SameClock
    /\ PutEntry(p, [kind |-> "put", did |-> did, collection |-> collection,
                    rkey |-> rkey, record |-> record, keyOK |-> keyOK])

\* Manager.CreateRecord: the rkey is the next TID of a fresh clock.
StartCreate(p, did, collection, record, keyOK) ==
    /\ ReadClock
    /\ PutEntry(p, [kind |-> "create", did |-> did, collection |-> collection,
                    rkey |-> TID(ClockNow), record |-> record, keyOK |-> keyOK])

\* Manager.DeleteRecord, up to openRepo.
StartDelete(p, did, collection, rkey, keyOK) ==
    LET o == [kind |-> "delete", did |-> did, collection |-> collection,
              rkey |-> rkey, record |-> "", keyOK |-> keyOK]
    IN  /\ SameClock
        /\ IF ~keyOK THEN Reject(p, o, "BadKey") ELSE Begin(p, o, "loadRoot")

\* InitRepo: SELECT EXISTS(SELECT 1 FROM repo_roots WHERE did = $1).
RepoExistsNever(did) == FALSE
RepoExists(did) == roots[did] # Nil

\* InitRepo: the existence query, then ParseKey.
InitCheck(p) ==
    /\ pc[p] = "initCheck"
    /\ Tick
    /\ IF RepoExists(op[p].did)
       THEN Return(p, "ok", Nil)
       ELSE IF ~op[p].keyOK
       THEN Return(p, "BadKey", Nil)
       ELSE /\ pc' = [pc EXCEPT ![p] = "commit"]
            /\ UNCHANGED <<op, loc, res>>
    /\ UNCHANGED <<roots, blocks, nops, logical>>
    /\ UNCHANGED firevars
    /\ UNCHANGED srvvars

\* The calls that read a repository: GetRecord, ListRecords, DescribeRepo
\* and ExportRepo.
ReadKinds == {"get", "list", "describe", "export"}

\* loadRoot, called by openRepo and by ExportRepo.
LoadRoot(p) ==
    /\ pc[p] = "loadRoot"
    /\ Tick
    /\ IF roots[op[p].did] = Nil
       THEN Return(p, "RepoNotFound", Nil)
       ELSE /\ loc' = [loc EXCEPT ![p].root = roots[op[p].did]]
            /\ pc' = [pc EXCEPT ![p] = IF op[p].kind \in ReadKinds
                                        THEN "readBlocks" ELSE "loadBlocks"]
            /\ UNCHANGED <<op, res>>
    /\ UNCHANGED <<roots, blocks, nops, logical>>
    /\ UNCHANGED firevars
    /\ UNCHANGED srvvars

\* DeleteRecord: "if prev == nil", the key was not in the tree.
DeleteMissingIgnored(prev) == FALSE
DeleteMissing(prev) == prev = Nil

\* PutRecord: the action of the op, from what tree.Insert returned.
OpActionAlwaysCreate(prev) == "create"
OpAction(prev) == IF prev # Nil THEN "update" ELSE "create"

\* The rest of openRepo (LoadBlocks, the commit block, the tree), and the
\* mutation of the tree by PutRecord or DeleteRecord.
LoadBlocks(p) ==
    LET o    == op[p]
        mem  == blocks[o.did]
        c    == loc[p].root[1]
        path == Path(o.collection, o.rkey)
    IN
    /\ pc[p] = "loadBlocks"
    /\ Tick
    /\ IF c \notin mem \/ ~LoadTreeOK(mem, CommitData(c))
       THEN Return(p, "MissingBlock", Nil)
       ELSE LET tree == LoadTree(CommitData(c))
                prev == TreeGet(tree, path)
            IN  IF o.kind = "delete"
                THEN IF DeleteMissing(prev)
                     THEN Return(p, "RecordNotFound", Nil)
                     ELSE /\ loc' = [loc EXCEPT ![p].mem = mem,
                                                ![p].preloaded = mem,
                                                ![p].tree = TreeRemove(tree, path),
                                                ![p].ops = <<"delete", path, Nil, prev>>]
                          /\ pc' = [pc EXCEPT ![p] = "commit"]
                          /\ UNCHANGED <<op, res>>
                ELSE LET recordCID == EncodeRecord(o.record)
                     IN  /\ loc' = [loc EXCEPT
                               ![p].mem = mem \cup {recordCID},
                               ![p].preloaded = mem,
                               ![p].tree = TreeInsert(tree, path, recordCID),
                               ![p].ops = <<OpAction(prev), path, recordCID, prev>>]
                         /\ pc' = [pc EXCEPT ![p] = "commit"]
                         /\ UNCHANGED <<op, res>>
    /\ UNCHANGED <<roots, blocks, nops, logical>>
    /\ UNCHANGED firevars
    /\ UNCHANGED srvvars

\* commitRepo: mstRoot, the data CID of the new commit.
NewDataStale(l) == IF l.root = Nil THEN MSTRoot(l.tree) ELSE CommitData(l.root[1])
NewData(l) == MSTRoot(l.tree)

\* commitRepo up to PersistAll (InitRepo: lines 85-113): the dirty nodes are
\* written, the commit is built with a rev from a fresh clock, signed and
\* stored, and the diff archive is exported.
BuildCommit(p) ==
    LET o       == op[p]
        l       == loc[p]
        mem1    == WriteDiffBlocks(l.mem, l.tree)
        prevCID == IF l.root = Nil THEN Nil ELSE l.root[1]
        rev     == TID(ClockNow)
        commit  == CommitBlock(o.did, prevCID, NewData(l), rev)
        mem2    == mem1 \cup {commit}
    IN
    /\ pc[p] = "commit"
    /\ ReadClock
    /\ loc' = [loc EXCEPT ![p].mem = mem2, ![p].commit = commit, ![p].rev = rev,
                          ![p].diff = IF o.kind = "init" THEN Nil
                                      ELSE ExportDiffCAR(mem2, l.preloaded, commit)]
    /\ pc' = [pc EXCEPT ![p] = "persist"]
    /\ UNCHANGED <<roots, blocks, op, res, nops, logical>>
    /\ UNCHANGED firevars
    /\ UNCHANGED srvvars

\* MemBlockstore.PersistAll: one INSERT ... ON CONFLICT DO NOTHING.  The
\* inserts of rows that exist already change nothing and are not steps.
PersistBlockReplacing(p) ==
    /\ pc[p] = "persist"
    /\ \E b \in loc[p].mem \ blocks[op[p].did] :
           blocks' = [blocks EXCEPT ![op[p].did] = {b}]
    /\ Tick
    /\ UNCHANGED <<roots, pc, op, loc, res, nops, logical>>
    /\ UNCHANGED firevars
    /\ UNCHANGED srvvars
PersistBlock(p) ==
    /\ pc[p] = "persist"
    /\ \E b \in loc[p].mem \ blocks[op[p].did] :
           blocks' = [blocks EXCEPT ![op[p].did] = @ \cup {b}]
    /\ Tick
    /\ UNCHANGED <<roots, pc, op, loc, res, nops, logical>>
    /\ UNCHANGED firevars
    /\ UNCHANGED srvvars

\* The key-to-record map after the operation o took effect on it.
ApplyOp(T, o) ==
    IF o.kind = "init" THEN T
    ELSE IF o.kind = "delete" THEN TreeRemove(T, Path(o.collection, o.rkey))
    ELSE TreeInsert(T, Path(o.collection, o.rkey), o.record)

\* commitRepo: PersistAll has returned, every block of the store is a row.
AllPersistedSkipped(p) == TRUE
AllPersisted(p) == loc[p].mem \subseteq blocks[op[p].did]

\* setRoot: INSERT INTO repo_roots ... ON CONFLICT (did) DO UPDATE, the row of
\* did is added or replaced.
UpsertEveryRoot(rs, did, root) == [d \in DOMAIN rs |-> root]
UpsertRoot(rs, did, root) == [rs EXCEPT ![did] = root]

\* setRoot, after PersistAll has written every block, and the return of the
\* CommitResult.
SetRoot(p) ==
    LET o == op[p]
        l == loc[p]
    IN
    /\ pc[p] = "persist"
    /\ AllPersisted(p)
    /\ Tick
    /\ roots' = UpsertRoot(roots, o.did, <<l.commit, l.rev>>)
    /\ logical' = [logical EXCEPT ![o.did] = ApplyOp(@, o)]
    /\ Return(p, "ok",
              IF o.kind = "init" THEN Nil
              ELSE [commit |-> l.commit, rev |-> l.rev,
                    prevRev |-> l.root[2],
                    prevData |-> IF l.root[1] \in l.mem
                                 THEN CommitData(l.root[1]) ELSE Nil,
                    ops |-> l.ops, diff |-> l.diff])
    /\ UNCHANGED <<blocks, nops>>
    /\ UNCHANGED firevars
    /\ UNCHANGED srvvars

\* A database call fails (or the request's context is cancelled).
DbFailRootSet(p) ==
    /\ pc[p] \in {"initCheck", "loadRoot", "loadBlocks", "readBlocks", "persist"}
    /\ Tick
    /\ Return(p, "StorageUnavailable", Nil)
    /\ roots' = IF pc[p] = "persist"
                THEN [roots EXCEPT ![op[p].did] = <<loc[p].commit, loc[p].rev>>]
                ELSE roots
    /\ UNCHANGED <<blocks, nops, logical>>
    /\ UNCHANGED firevars
    /\ UNCHANGED srvvars
DbFail(p) ==
    /\ pc[p] \in {"initCheck", "loadRoot", "loadBlocks", "readBlocks", "persist"}
    /\ Tick
    /\ Return(p, "StorageUnavailable", Nil)
    /\ UNCHANGED <<roots, blocks, nops, logical>>
    /\ UNCHANGED firevars
    /\ UNCHANGED srvvars

Step(p) ==
    \/ InitCheck(p)
    \/ LoadRoot(p)
    \/ LoadBlocks(p)
    \/ BuildCommit(p)
    \/ PersistBlock(p)
    \/ SetRoot(p)
    \/ DbFail(p)

Start(p, D) ==
    \E did \in D, keyOK \in BOOLEAN :
        \/ StartInit(p, did, keyOK)
        \/ \E c \in Collections, r \in Rkeys, v \in Records :
               StartPut(p, did, c, r, v, keyOK)
        \/ \E c \in Collections, v \in Records : StartCreate(p, did, c, v, keyOK)
        \/ \E c \in Collections, r \in Rkeys : StartDelete(p, did, c, r, keyOK)

(* --------------------------- event manager ----------------------------- *)
(* Package events: Emit inserts a row into firehose_events and broadcasts  *)
(* the frame to the registered subscribers; Subscribe registers a          *)
(* subscriber and, given a cursor, starts a goroutine that replays the     *)
(* table into the subscriber's channel.  Manager.mu is a read-write lock:  *)
(* broadcast holds it for reading during its whole loop, and every change  *)
(* of Manager.subs holds it for writing, which is one step here.           *)

\* emitCommitEvent: the CommitInfo built from a CommitResult.
CommitInfo(did, result) == [did |-> did, rev |-> result.rev, commit |-> result.commit]

\* Persister.Persist: the stored payload is the commit message, whose Seq
\* field is not set yet.
Payload(info) == [seq |-> 0, did |-> info.did, rev |-> info.rev, commit |-> info.commit]

\* "commit.Seq = seq", then encodeFrame; in Emit on the message just
\* persisted, in Replay on the payload decoded from the row.
FrameUnsequenced(seq, payload) == payload
Frame(seq, payload) == [payload EXCEPT !.seq = seq]

\* The next value of the BIGSERIAL column seq.
NextSeqReused(n) == IF n = 0 THEN 1 ELSE n
NextSeq(n) == n + 1

\* Replay: SELECT seq, payload FROM firehose_events WHERE seq > $1 ORDER BY
\* seq ASC, each row turned into its frame.
RECURSIVE SortBySeq(_)
SortBySeq(R) ==
    IF R = {} THEN <<>>
    ELSE LET r == CHOOSE x \in R : \A y \in R : x.seq <= y.seq
         IN  <<r>> \o SortBySeq(R \ {r})

ReplayRows(since) ==
    LET hit  == {i \in DOMAIN events : events[i].seq > since}
        rows == SortBySeq({events[i] : i \in hit})
    IN  [i \in DOMAIN rows |-> Frame(rows[i].seq, rows[i].payload)]

\* Some broadcast holds Manager.mu for reading.
ReadLocked == \E p \in Procs : emit[p].pc = "broadcast"

\* "case sub.ch <- frame" can proceed on an open channel.
HasRoom(s) == Len(sub[s].ch) < QueueCap

\* The frame is placed on the channel of s.
Enqueue(s, frame, origin) ==
    [sub EXCEPT ![s].ch = Append(@, frame),
                ![s].got = Append(@, [seq |-> frame.seq, origin |-> origin])]

\* Emit, up to the call of Persist: the commit message is built.
BeginEmit(p, info) ==
    /\ ~crashed
    /\ emit[p].pc = "idle"
    /\ nemits < MaxEmits
    /\ nemits' = nemits + 1
    /\ emit' = [emit EXCEPT ![p] = [pc |-> "persist", info |-> info, seq |-> 0,
                                    todo |-> {}, status |-> "none"]]
    /\ UNCHANGED <<events, lastSeq, subs, sub, removing, crashed>>
    /\ UNCHANGED repovars
    /\ UNCHANGED srvvars

\* Emit returns (a panic in it is recovered by the server's middleware, and
\* the deferred RUnlock has run).
EmitReturn(p, status) ==
    emit' = [emit EXCEPT ![p].pc = "idle", ![p].todo = {}, ![p].status = status]

\* Persister.Persist: INSERT ... RETURNING seq.
Persist(p) ==
    LET seq == NextSeq(lastSeq)
    IN  /\ ~crashed
        /\ emit[p].pc = "persist"
        /\ lastSeq' = seq
        /\ events' = Append(events, [seq |-> seq, payload |-> Payload(emit[p].info)])
        /\ emit' = [emit EXCEPT ![p].seq = seq, ![p].pc = "lock"]
        /\ UNCHANGED <<subs, sub, removing, crashed, nemits>>
        /\ UNCHANGED repovars
        /\ UNCHANGED srvvars

\* The INSERT fails: Emit returns the error.  The sequence may have
\* advanced all the same, a value of a sequence is never given back.
PersistFail(p) ==
    /\ ~crashed
    /\ emit[p].pc = "persist"
    /\ lastSeq' \in {lastSeq, NextSeq(lastSeq)}
    /\ EmitReturn(p, "error")
    /\ UNCHANGED <<events, subs, sub, removing, crashed, nemits>>
    /\ UNCHANGED repovars
    /\ UNCHANGED srvvars

\* broadcast: RLock; the loop will range over the subscribers registered now.
BroadcastBegin(p) ==
    /\ ~crashed
    /\ emit[p].pc = "lock"
    /\ IF subs = {}
       THEN EmitReturn(p, "ok")
       ELSE emit' = [emit EXCEPT ![p].pc = "broadcast", ![p].todo = subs]
    /\ UNCHANGED <<events, lastSeq, subs, sub, removing, crashed, nemits>>
    /\ UNCHANGED repovars
    /\ UNCHANGED srvvars

\* One iteration of the loop of broadcast, "select { case sub.ch <- frame:
\* default: close(sub.ch); go delete }".  A send on a closed channel panics,
\* also in a select with a default case.
BroadcastSend(p, s) ==
    LET frame == Frame(emit[p].seq, Payload(emit[p].info))
        rest  == emit[p].todo \ {s}
        after == IF rest = {}
                 THEN [emit EXCEPT ![p].pc = "idle", ![p].todo = {}, ![p].status = "ok"]
                 ELSE [emit EXCEPT ![p].todo = rest]
    IN  /\ ~crashed
        /\ emit[p].pc = "broadcast"
        /\ s \in emit[p].todo
        /\ IF sub[s].closed
           THEN /\ EmitReturn(p, "panic")
                /\ UNCHANGED <<sub, removing>>
           ELSE IF HasRoom(s)
           THEN /\ sub' = Enqueue(s, frame, "live")
                /\ emit' = after
                /\ UNCHANGED removing
           ELSE /\ sub' = [sub EXCEPT ![s].closed = TRUE]
                /\ removing' = removing \cup {s}
                /\ emit' = after
        /\ UNCHANGED <<events, lastSeq, subs, crashed, nemits>>
        /\ UNCHANGED repovars
        /\ UNCHANGED srvvars

\* The goroutine started by broadcast for a slow consumer: Lock, delete.
RemoveNothing(s) ==
    /\ ~crashed
    /\ s \in removing
    /\ ~ReadLocked
    /\ removing' = removing \ {s}
    /\ UNCHANGED <<events, lastSeq, subs, sub, emit, crashed, nemits>>
    /\ UNCHANGED repovars
    /\ UNCHANGED srvvars
Remove(s) ==
    /\ ~crashed
    /\ s \in removing
    /\ ~ReadLocked
    /\ subs' = subs \ {s}
    /\ removing' = removing \ {s}
    /\ UNCHANGED <<events, lastSeq, sub, emit, crashed, nemits>>
    /\ UNCHANGED repovars
    /\ UNCHANGED srvvars

\* handleSubscribeRepos calls Subscribe: the subscriber is created and
\* registered, and with a cursor the replay goroutine is started.
Subscribe(s, since) ==
    /\ ~crashed
    /\ sub[s].state = "none"
    /\ ~ReadLocked
    /\ subs' = subs \cup {s}
    /\ sub' = [sub EXCEPT ![s].state = "live", ![s].since = since,
                          ![s].replay = IF since = Nil THEN "none" ELSE "query"]
    /\ UNCHANGED <<events, lastSeq, emit, removing, crashed, nemits>>
    /\ UNCHANGED repovars
    /\ UNCHANGED srvvars

\* The request's context is cancelled or sub.done is closed.
CancelledUnseen(s) == FALSE
Cancelled(s) == sub[s].done \/ sub[s].ctx \/ sub[s].state \in {"leaving", "gone"}

\* Persister.Replay: the query.
ReplayQuery(s) ==
    LET rows == ReplayRows(sub[s].since[1])
    IN  /\ ~crashed
        /\ sub[s].replay = "query"
        /\ sub' = [sub EXCEPT ![s].rows = rows,
                              ![s].replay = IF rows = <<>> THEN "end" ELSE "send"]
        /\ UNCHANGED <<events, lastSeq, subs, emit, removing, crashed, nemits>>
        /\ UNCHANGED repovars
        /\ UNCHANGED srvvars

\* The query fails: the goroutine logs a warning and ends.
ReplayQueryFail(s) ==
    /\ ~crashed
    /\ sub[s].replay = "query"
    /\ sub' = [sub EXCEPT ![s].replay = "failed"]
    /\ UNCHANGED <<events, lastSeq, subs, emit, removing, crashed, nemits>>
    /\ UNCHANGED repovars
    /\ UNCHANGED srvvars

\* The callback of Replay, "select { case sub.ch <- frame: case <-sub.done:
\* case <-ctx.Done(): }": it waits while the channel is full.  On a closed
\* channel the send panics, in a goroutine with no recover: the process ends.
ReplaySend(s) ==
    LET rest == Tail(sub[s].rows)
    IN  /\ ~crashed
        /\ sub[s].replay = "send"
        /\ \/ /\ sub[s].closed
              /\ crashed' = TRUE
              /\ UNCHANGED sub
           \/ /\ ~sub[s].closed
              /\ HasRoom(s)
              /\ sub' = [Enqueue(s, Head(sub[s].rows), "replay") EXCEPT
                            ![s].rows = rest,
                            ![s].replay = IF rest = <<>> THEN "end" ELSE "send"]
              /\ UNCHANGED crashed
           \/ /\ Cancelled(s)
              /\ sub' = [sub EXCEPT ![s].replay = "end", ![s].rows = <<>>]
              /\ UNCHANGED crashed
        /\ UNCHANGED <<events, lastSeq, subs, emit, removing, nemits>>
        /\ UNCHANGED repovars
        /\ UNCHANGED srvvars

\* The write loop of handleSubscribeRepos takes a frame from the channel
\* and writes it to the WebSocket.
Recv(s) ==
    /\ ~crashed
    /\ sub[s].state = "live"
    /\ sub[s].ch # <<>>
    /\ sub' = [sub EXCEPT ![s].ch = Tail(@)]
    /\ UNCHANGED <<events, lastSeq, subs, emit, removing, crashed, nemits>>
    /\ UNCHANGED repovars
    /\ UNCHANGED srvvars

\* The write loop returns: the channel is closed and drained, or the client
\* has gone, or a write to it failed.
Leave(s) ==
    /\ ~crashed
    /\ sub[s].state = "live"
    /\ sub' = [sub EXCEPT ![s].state = "leaving"]
    /\ UNCHANGED <<events, lastSeq, subs, emit, removing, crashed, nemits>>
    /\ UNCHANGED repovars
    /\ UNCHANGED srvvars

\* The deferred cancel of the handler: Lock, delete, Unlock, close(sub.done).
Cancel(s) ==
    /\ ~crashed
    /\ sub[s].state = "leaving"
    /\ ~ReadLocked
    /\ subs' = subs \ {s}
    /\ sub' = [sub EXCEPT ![s].state = "gone", ![s].done = TRUE]
    /\ UNCHANGED <<events, lastSeq, emit, removing, crashed, nemits>>
    /\ UNCHANGED repovars
    /\ UNCHANGED srvvars

\* The commit events given to Emit when the manager is taken on its own:
\* one per repository of D.
FireInfos(D) ==
    {CommitInfo(d, [rev |-> TID(1),
                    commit |-> CommitBlock(d, Nil, MSTRoot(EmptyTree), TID(1))]) :
        d \in D}

\* The cursors of the subscribeRepos requests.
Cursors == {Nil, <<0>>, <<1>>}

EmitStep(p) ==
    \/ Persist(p)
    \/ PersistFail(p)
    \/ BroadcastBegin(p)
    \/ \E s \in Subs : BroadcastSend(p, s)

\* A connection without cursor: the subscriber only receives live frames.
LiveStep(s) ==
    \/ Subscribe(s, Nil)
    \/ Recv(s)
    \/ Leave(s)
    \/ Cancel(s)
    \/ Remove(s)

\* A connection with a cursor, and its replay goroutine.
ReplayStep(s) ==
    \/ \E since \in Cursors \ {Nil} : Subscribe(s, since)
    \/ ReplayQuery(s)
    \/ ReplayQueryFail(s)
    \/ ReplaySend(s)

\* The event manager with concurrent Emit calls, for any repository, and
\* one connection, with or without cursor.
Single == {1}

FireNext ==
    \/ \E p \in Procs : (\E info \in FireInfos(DIDs) : BeginEmit(p, info)) \/ EmitStep(p)
    \/ \E s \in Single : LiveStep(s) \/ ReplayStep(s)

FireSpec == Init /\ [][FireNext]_vars

\* The event manager with concurrent Emit calls and several connections,
\* none with a cursor.
FanNext ==
    \/ \E p \in Procs : (\E info \in FireInfos({"did:a"}) : BeginEmit(p, info)) \/ EmitStep(p)
    \/ \E s \in Subs : LiveStep(s)

FanSpec == Init /\ [][FanNext]_vars

\* The event manager with Emit calls made one after another and several
\* connections, the first of them with or without a cursor.
MixedNext ==
    \/ (\E info \in FireInfos({"did:a"}) : BeginEmit(1, info)) \/ EmitStep(1)
    \/ \E s \in Subs : LiveStep(s)
    \/ \E s \in Single : ReplayStep(s)

MixedSpec == Init /\ [][MixedNext]_vars

\* FanSpec with every goroutine of the manager scheduled: an Emit call
\* that can take a step takes one, and so does the goroutine that deletes a
\* slow consumer.  Nothing makes a client read.
FairFanSpec ==
    /\ FanSpec
    /\ \A p \in Procs : WF_vars(EmitStep(p))
    /\ \A s \in Subs : WF_vars(Remove(s))

\* Requests run concurrently, all against one repository.
Contended == {"did:a"}

Next == \E p \in Procs : Start(p, Contended) \/ Step(p)

Spec == Init /\ [][Next]_vars

\* The last call of request p has returned a CommitResult.
IsCommitResult(p) == res[p].status = "ok" /\ res[p].out # Nil

\* The handler of request p has a CommitResult it has not passed to
\* emitCommitEvent yet.
EmitPending(p) ==
    /\ IsCommitResult(p)
    /\ IF emit[p].info = Nil THEN TRUE ELSE emit[p].info.commit # res[p].out.commit

\* A handler (handlePutRecord, handleCreateRecord, handleDeleteRecord,
\* account creation for InitRepo) calls the repository engine.
HandleStart(p) ==
    /\ emit[p].pc = "idle"
    /\ ~EmitPending(p)
    /\ Start(p, Contended)

\* The handler calls emitCommitEvent with the CommitResult of its write.
HandleEmit(p) ==
    /\ pc[p] = "idle"
    /\ EmitPending(p)
    /\ BeginEmit(p, CommitInfo(res[p].op.did, res[p].out))

\* The write handlers of the server, run by concurrent requests on one
\* repository: the write, then the emission of its event.  No subscriber is
\* connected.
HandlerNext ==
    \E p \in Procs :
        \/ HandleStart(p)
        \/ Step(p)
        \/ HandleEmit(p)
        \/ Persist(p)
        \/ PersistFail(p)
        \/ BroadcastBegin(p)

HandlerSpec == Init /\ [][HandlerNext]_vars

\* Requests run one after another, against any repository.
SeqNext == Start(1, DIDs) \/ Step(1)

SeqSpec == Init /\ [][SeqNext]_vars

(* ---------------------- cancellation and shutdown ---------------------- *)

\* The context of the subscribeRepos request (c.Request().Context(), passed
\* to Subscribe) is cancelled while the handler is in its write loop.  The
\* manager keeps no goroutine that waits for it: only the callback of the
\* replay and the write loop of the handler select on ctx.Done().
CtxCancel(s) ==
    /\ ~crashed
    /\ sub[s].state = "live"
    /\ ~sub[s].ctx
    /\ sub' = [sub EXCEPT ![s].ctx = TRUE]
    /\ UNCHANGED <<events, lastSeq, subs, emit, removing, crashed, nemits>>
    /\ UNCHANGED repovars
    /\ UNCHANGED srvvars

\* Manager.Shutdown: close(m.done), Lock, then for every registered
\* subscriber close(sub.ch) and delete.  Closing a channel that is closed
\* already panics; the map is ranged over in no fixed order, so any of the
\* open subscribers may have been closed and deleted before the panic.
Shutdown ==
    LET open == {s \in subs : ~sub[s].closed}
        CloseAll(T) == [s \in Subs |-> IF s \in T THEN [sub[s] EXCEPT !.closed = TRUE]
                                       ELSE sub[s]]
    IN  /\ ~crashed
        /\ ~stopped
        /\ ~ReadLocked
        /\ stopped' = TRUE
        /\ IF open # subs
           THEN /\ crashed' = TRUE
                /\ \E T \in SUBSET open :
                       /\ sub' = CloseAll(T)
                       /\ subs' = subs \ T
           ELSE /\ sub' = CloseAll(subs)
                /\ subs' = {}
                /\ UNCHANGED crashed
        /\ UNCHANGED <<events, lastSeq, emit, removing, nemits>>
        /\ UNCHANGED repovars
        /\ UNCHANGED <<caller, pools, openPools, adds, list, archive, replay, wire>>

\* The event manager with Emit calls made one after another and one
\* connection, with or without cursor, whose request context can be
\* cancelled.
CtxNext ==
    \/ (\E info \in FireInfos({"did:a"}) : BeginEmit(1, info)) \/ EmitStep(1)
    \/ \E s \in Single : LiveStep(s) \/ ReplayStep(s) \/ CtxCancel(s)

CtxSpec == Init /\ [][CtxNext]_vars

\* MixedSpec with a call of Shutdown at any moment.
StopNext ==
    \/ (\E info \in FireInfos({"did:a"}) : BeginEmit(1, info)) \/ EmitStep(1)
    \/ \E s \in Subs : LiveStep(s)
    \/ \E s \in Single : ReplayStep(s)
    \/ Shutdown

StopSpec == Init /\ [][StopNext]_vars

(* --------------------------- authorisation ----------------------------- *)

\* The authContext values the middleware can attach to a request: the
\* admin key, the access token of an account, or none (getAuth returns nil).
AuthContexts ==
    {Nil, [DID |-> "", IsAdmin |-> TRUE]} \cup {[DID |-> d, IsAdmin |-> FALSE] : d \in DIDs}

\* checkRepoAuth: "ok" for a nil error, otherwise the error of the response.
CheckRepoAuthOpen(ac, repoDID) == IF ac = Nil THEN "AuthRequired" ELSE "ok"
CheckRepoAuth(ac, repoDID) ==
    IF ac = Nil THEN "AuthRequired"
    ELSE IF ac.IsAdmin THEN "ok"
    ELSE IF ac.DID # repoDID THEN "Forbidden"
    ELSE "ok"

\* Request p has reached its handler, which has not called the engine or
\* answered yet.
Fresh(p) == caller[p] # Nil /\ pc[p] = "idle" /\ res[p] = NoRes

\* A request arrives on connection p once the previous one is answered:
\* the middleware has set its auth context (or none).
Authenticate(p, ac) ==
    /\ pc[p] = "idle"
    /\ emit[p].pc = "idle"
    /\ ~EmitPending(p)
    /\ caller[p] = Nil \/ res[p] # NoRes
    /\ nops < MaxOps
    /\ caller' = [caller EXCEPT ![p] = <<ac>>]
    /\ res' = [res EXCEPT ![p] = NoRes]
    /\ UNCHANGED <<roots, blocks, now, elapsed, pc, op, loc, nops, logical>>
    /\ UNCHANGED firevars
    /\ UNCHANGED <<pools, openPools, adds, stopped, list, archive, replay, wire>>

\* handleCreateRecord, handlePutRecord, handleDeleteRecord: checkRepoAuth
\* returns an error, which the handler returns.
AuthReject(p) ==
    /\ Fresh(p)
    /\ \E did \in DIDs :
           /\ CheckRepoAuth(caller[p][1], did) # "ok"
           /\ SameClock
           /\ Reject(p, [NoOp EXCEPT !.kind = "write", !.did = did],
                     CheckRepoAuth(caller[p][1], did))

\* The same handlers when checkRepoAuth returns nil: the call of the engine.
AuthWrite(p) ==
    /\ Fresh(p)
    /\ \E did \in DIDs, keyOK \in BOOLEAN :
           /\ CheckRepoAuth(caller[p][1], did) = "ok"
           /\ \/ \E c \in Collections, r \in Rkeys, v \in Records :
                     StartPut(p, did, c, r, v, keyOK)
              \/ \E c \in Collections, v \in Records : StartCreate(p, did, c, v, keyOK)
              \/ \E c \in Collections, r \in Rkeys : StartDelete(p, did, c, r, keyOK)

\* Account creation (admin route), which calls InitRepo and not
\* checkRepoAuth.
AuthInit(p) ==
    /\ Fresh(p)
    /\ caller[p][1] # Nil
    /\ caller[p][1].IsAdmin
    /\ \E did \in DIDs, keyOK \in BOOLEAN : StartInit(p, did, keyOK)

\* The write handlers behind the authentication middleware, requests one
\* after another, on any repository, each followed by the emission of its
\* event.
AuthNext ==
    \/ \E ac \in AuthContexts : Authenticate(1, ac)
    \/ AuthReject(1)
    \/ AuthWrite(1)
    \/ AuthInit(1)
    \/ Step(1)
    \/ HandleEmit(1)
    \/ Persist(1)
    \/ PersistFail(1)
    \/ BroadcastBegin(1)

AuthSpec == Init /\ [][AuthNext]_vars

(* ----------------------------- tenant pools ---------------------------- *)
(* PoolManager: the map from domain names to the connection pools of the   *)
(* tenant databases.  A pool is named by the call that opened it.          *)

\* Add calls started so far.
AddCalls == adds[1].n + adds[2].n

\* Add up to NewWithConfig: the configuration parses and the pool is open.
AddOpen(p, domainName) ==
    LET pool == <<p, adds[p].n + 1>>
    IN  /\ adds[p].pc = "idle"
        /\ AddCalls < MaxAdds
        /\ openPools' = openPools \cup {pool}
        /\ adds' = [adds EXCEPT ![p] = [pc |-> "ping", domain |-> domainName,
                                        pool |-> pool, n |-> adds[p].n + 1,
                                        err |-> Nil]]
        /\ UNCHANGED <<caller, pools, stopped, list, archive, replay, wire>>
        /\ UNCHANGED repovars
        /\ UNCHANGED firevars

\* ParseConfig or NewWithConfig fails: Add returns the error, no pool exists.
AddOpenFail(p, domainName) ==
    /\ adds[p].pc = "idle"
    /\ AddCalls < MaxAdds
    /\ adds' = [adds EXCEPT ![p] = [pc |-> "idle", domain |-> domainName,
                                    pool |-> Nil, n |-> adds[p].n + 1,
                                    err |-> "connect"]]
    /\ UNCHANGED <<caller, pools, openPools, stopped, list, archive, replay, wire>>
    /\ UNCHANGED repovars
    /\ UNCHANGED firevars

\* pool.Ping, then pool.Exec(TenantSchema): the call succeeds.
AddBootstrap(p) ==
    /\ adds[p].pc \in {"ping", "schema"}
    /\ adds' = [adds EXCEPT ![p].pc = IF adds[p].pc = "ping" THEN "schema" ELSE "publish"]
    /\ UNCHANGED <<caller, pools, openPools, stopped, list, archive, replay, wire>>
    /\ UNCHANGED repovars
    /\ UNCHANGED firevars

\* Ping or Exec fails: pool.Close(), and Add returns the error.
AddBootstrapFail(p) ==
    /\ adds[p].pc \in {"ping", "schema"}
    /\ openPools' = openPools \ {adds[p].pool}
    /\ adds' = [adds EXCEPT ![p].pc = "idle", ![p].pool = Nil,
                            ![p].err = adds[p].pc]
    /\ UNCHANGED <<caller, pools, stopped, list, archive, replay, wire>>
    /\ UNCHANGED repovars
    /\ UNCHANGED firevars

\* Lock; pm.pools[domainName] = pool; Unlock; return nil.
AddPublish(p) ==
    /\ adds[p].pc = "publish"
    /\ pools' = [pools EXCEPT ![adds[p].domain] = adds[p].pool]
    /\ adds' = [adds EXCEPT ![p].pc = "idle"]
    /\ UNCHANGED <<caller, openPools, stopped, list, archive, replay, wire>>
    /\ UNCHANGED repovars
    /\ UNCHANGED firevars

\* Concurrent calls of PoolManager.Add, for any domain.
PoolNext ==
    \E p \in Procs :
        \/ \E d \in Domains : AddOpen(p, d) \/ AddOpenFail(p, d)
        \/ AddBootstrap(p)
        \/ AddBootstrapFail(p)
        \/ AddPublish(p)

PoolSpec == Init /\ [][PoolNext]_vars

(* ------------------------- reading the database ------------------------ *)

\* A reading of the clock within the bounds of the model.
Times == 0..(2 * MaxOps)

AllRkeys == Rkeys \cup {TID(t) : t \in Times}

\* The commit the RepoRoot row of did names.
RootCommit(did) == roots[did][1]

\* The key-to-record map of the tree under commit c.
CommitRecords(c) ==
    LET T == LoadTree(CommitData(c))
    IN  [k \in DOMAIN T |-> DecodeRecord(T[k])]

\* GetRecord after loadRoot: the blocks mem loaded by LoadBlocks, the
\* commit c named by the root row.
GetRecordAt(c, mem, collection, rkey) ==
    IF c \notin mem \/ ~LoadTreeOK(mem, CommitData(c))
    THEN <<"MissingBlock">>
    ELSE LET recordCID == TreeGet(LoadTree(CommitData(c)), Path(collection, rkey))
         IN  IF recordCID = Nil THEN <<"RecordNotFound">>
             ELSE IF recordCID \notin mem THEN <<"MissingBlock">>
             ELSE <<"ok", recordCID, DecodeRecord(recordCID)>>

\* Manager.GetRecord, run to its end with no other request in between.
GetRecord(did, collection, rkey) ==
    IF roots[did] = Nil THEN <<"RepoNotFound">>
    ELSE GetRecordAt(RootCommit(did), blocks[did], collection, rkey)

(* ------------------------------ listRecords ---------------------------- *)

\* strings.HasPrefix
HasPrefixAny(k, prefix) == TRUE
HasPrefix(k, prefix) ==
    Len(k) >= Len(prefix) /\ SubSeq(k, 1, Len(prefix)) = prefix

\* strings.TrimPrefix
TrimPrefix(k, prefix) ==
    IF HasPrefix(k, prefix) THEN SubSeq(k, Len(prefix) + 1, Len(k)) ELSE k

\* The in-place reversal of entries.
Reverse(s) == [i \in 1..Len(s) |-> s[Len(s) + 1 - i]]

\* ListRecords: startIdx, the number of entries skipped.  The loop stops
\* at the first entry whose key is the cursor's; without one startIdx
\* keeps its initial value.
StartIdxAtCursor(entries, prefix, cursor) ==
    LET hits == {i \in DOMAIN entries : entries[i] = prefix \o cursor}
    IN  IF cursor = <<>> \/ hits = {} THEN 0
        ELSE (CHOOSE i \in hits : \A j \in hits : i <= j) - 1
StartIdx(entries, prefix, cursor) ==
    LET hits == {i \in DOMAIN entries : entries[i] = prefix \o cursor}
    IN  IF cursor = <<>> \/ hits = {} THEN 0
        ELSE CHOOSE i \in hits : \A j \in hits : i <= j

\* ListRecords: nextCursor, set in the iteration that fills the page when
\* entries remain after it ("len(records) == limit && i+1 < len(entries)").
NextCursorFullPage(entries, startIdx, count, lim, prefix) ==
    IF count = lim THEN TrimPrefix(entries[startIdx + count], prefix) ELSE Nil
NextCursor(entries, startIdx, count, lim, prefix) ==
    IF count = lim /\ startIdx + count < Len(entries)
    THEN TrimPrefix(entries[startIdx + count], prefix)
    ELSE Nil

\* Manager.ListRecords, run to its end with no other request in between:
\* the status, the page and the next cursor.
ListFailed(status) == [status |-> status, records |-> <<>>, next |-> Nil]

\* ListRecords after loadRoot: the blocks mem loaded by LoadBlocks, the
\* commit c named by the root row.
ListRecordsAt(did, c, mem, collection, limit, cursor, reverse) ==
    IF c \notin mem \/ ~LoadTreeOK(mem, CommitData(c))
    THEN ListFailed("MissingBlock")
    ELSE LET tree       == LoadTree(CommitData(c))
             prefix     == collection \o <<Slash>>
             InColl(k)  == HasPrefix(k, prefix)
             walked     == SelectSeq(TreeWalk(tree), InColl)
             entries    == IF reverse THEN Reverse(walked) ELSE walked
             startIdx   == StartIdx(entries, prefix, cursor)
             lim        == IF limit <= 0 \/ limit > ListMax
                           THEN ListDefault ELSE limit
             count      == Min(lim, Len(entries) - startIdx)
             Entry(j)   == entries[startIdx + j]
         IN  IF \E j \in 1..count : tree[Entry(j)] \notin mem
             THEN ListFailed("MissingBlock")
             ELSE [status  |-> "ok",
                   records |-> [j \in 1..count |->
                                  [uri |-> <<did, Entry(j)>>,
                                   rkey |-> TrimPrefix(Entry(j), prefix),
                                   cid |-> tree[Entry(j)],
                                   val |-> DecodeRecord(tree[Entry(j)])]],
                   next    |-> NextCursor(entries, startIdx, count, lim, prefix)]

\* Manager.ListRecords, run to its end with no other request in between.
ListRecords(did, collection, limit, cursor, reverse) ==
    IF roots[did] = Nil THEN ListFailed("RepoNotFound")
    ELSE ListRecordsAt(did, RootCommit(did), blocks[did], collection, limit,
                       cursor, reverse)

\* The collections, record keys, limits and cursors of the listRecords
\* requests, and the keys of the records the repository can hold.
ListCollections == {<<2>>, <<2, 2>>, <<3>>}
ListRkeys == {<<2>>, <<3>>, <<4>>, <<5>>}
ListKeys ==
    {Path(<<2>>, r) : r \in ListRkeys} \cup {Path(<<2, 2>>, <<2>>), Path(<<3>>, <<2>>)}
ListLimits == (0 - 1)..(ListMax + 1)
ListCursors == ListRkeys \cup {<<2, 2>>, <<6>>}

\* The repository of did after InitRepo and one PutRecord for each key of
\* ks, in that order: the tree, the last commit, the number of commits
\* (the n-th commit is made at time n) and the rows of repo_blocks.
RECURSIVE RepoAfter(_, _)
RepoAfter(did, ks) ==
    IF ks = <<>>
    THEN LET c == CommitBlock(did, Nil, MSTRoot(EmptyTree), TID(1))
         IN  [tree |-> EmptyTree, commit |-> c, n |-> 1,
              blocks |-> WriteDiffBlocks({}, EmptyTree) \cup {c}]
    ELSE LET r   == RepoAfter(did, SubSeq(ks, 1, Len(ks) - 1))
             rec == EncodeRecord(IF Len(ks) % 2 = 0 THEN "v2" ELSE "v1")
             T   == TreeInsert(r.tree, ks[Len(ks)], rec)
             c   == CommitBlock(did, r.commit, MSTRoot(T), TID(r.n + 1))
         IN  [tree |-> T, commit |-> c, n |-> r.n + 1,
              blocks |-> WriteDiffBlocks(r.blocks \cup {rec}, T) \cup {c}]

\* The server with the repository of did:a holding any set of records and
\* did:b holding no repository; nothing writes, and one client makes one
\* iteration or one single call.
ListInit ==
    /\ FireInit
    /\ SrvInit
    /\ \E K \in SUBSET ListKeys :
           LET r == RepoAfter("did:a", SortedKeys(K))
           IN  /\ roots = [d \in DIDs |-> IF d = "did:a" THEN <<r.commit, TID(r.n)>>
                                          ELSE Nil]
               /\ blocks = [d \in DIDs |-> IF d = "did:a" THEN r.blocks ELSE {}]
               /\ logical = [d \in DIDs |-> IF d = "did:a"
                                            THEN [k \in K |-> DecodeRecord(r.tree[k])]
                                            ELSE EmptyTree]
               /\ now = r.n
    /\ elapsed = TRUE
    /\ pc = [p \in Procs |-> "idle"]
    /\ op = [p \in Procs |-> NoOp]
    /\ loc = [p \in Procs |-> NoLoc]
    /\ res = [p \in Procs |-> NoRes]
    /\ nops = 0

\* The client's record of one call and of the iteration it belongs to.
Listed(did, collection, limit, cursor, reverse, acc, once) ==
    LET r == ListRecords(did, collection, limit, cursor, reverse)
    IN  [pc |-> IF once THEN "once"
                ELSE IF r.status = "ok" /\ r.next # Nil THEN "more" ELSE "done",
         did |-> did, collection |-> collection, limit |-> limit,
         reverse |-> reverse, cursor |-> cursor, status |-> r.status,
         records |-> r.records, next |-> r.next,
         acc |-> acc \o [j \in DOMAIN r.records |-> r.records[j].rkey]]

\* A client starts to iterate over a collection: the call without cursor.
ListFirst(did, collection, limit, reverse) ==
    /\ list.pc = "idle"
    /\ list' = Listed(did, collection, limit, Nil, reverse, <<>>, FALSE)
    /\ UNCHANGED <<caller, pools, openPools, adds, stopped, archive, replay, wire>>
    /\ UNCHANGED repovars
    /\ UNCHANGED firevars

\* The client asks for the next page with the cursor of the last one.
ListMore ==
    /\ list.pc = "more"
    /\ list' = Listed(list.did, list.collection, list.limit, list.next,
                      list.reverse, list.acc, FALSE)
    /\ UNCHANGED <<caller, pools, openPools, adds, stopped, archive, replay, wire>>
    /\ UNCHANGED repovars
    /\ UNCHANGED firevars

\* A single call with a cursor of the client's choice.
ListAt(did, collection, limit, cursor, reverse) ==
    /\ list.pc = "idle"
    /\ list' = Listed(did, collection, limit, cursor, reverse, <<>>, TRUE)
    /\ UNCHANGED <<caller, pools, openPools, adds, stopped, archive, replay, wire>>
    /\ UNCHANGED repovars
    /\ UNCHANGED firevars

ListNext ==
    \/ \E did \in DIDs, c \in ListCollections, n \in ListLimits, rev \in BOOLEAN :
           \/ ListFirst(did, c, n, rev)
           \/ \E cursor \in ListCursors : ListAt(did, c, n, cursor, rev)
    \/ ListMore

ListSpec == ListInit /\ [][ListNext]_vars

(* ------------------------------ claims --------------------------------- *)

\* InitRepo has built at most one initial commit for the DID.
SingleInit(d) == Cardinality({b \in blocks[d] : IsCommit(b) /\ CommitPrev(b) = Nil}) <= 1

\* The DID was initialised once and no InitRepo call on it is in progress.
OnlyWrites(d) == SingleInit(d) /\ \A p \in Procs : ~(op[p].kind = "init" /\ op[p].did = d)

\* C1: the commits that become RepoRoot by a write form one chain: the prev
\* of each equals the CID of the commit that was RepoRoot immediately before
\* it, so no two commits share a prev.  Stated for steps of writes on
\* repositories that were initialised once.  (The code takes no per-DID lock and violates it.)
C1_CommitChain ==
    [][\A d \in DIDs :
          (roots'[d] # roots[d] /\ CommitPrev(roots'[d][1]) # Nil /\ OnlyWrites(d))
              => (roots[d] # Nil /\ CommitPrev(roots'[d][1]) = roots[d][1])]_vars

\* C2: no successful write is lost: the tree named by RepoRoot holds exactly
\* the records of the writes that returned success, applied in commit order.
\* Stated for repositories that were initialised once.
C2_NoLostWrite ==
    \A d \in DIDs :
        (roots[d] # Nil /\ CommitPrev(RootCommit(d)) # Nil /\ SingleInit(d))
            => CommitRecords(RootCommit(d)) = logical[d]

\* C3: for every RepoRoot row, the persisted blocks of the DID contain the
\* commit block, every MST node under the commit's data CID and every record
\* block the tree refers to, at every step of every write.
C3_Closure ==
    \A d \in DIDs :
        roots[d] # Nil =>
            /\ RootCommit(d) \in blocks[d]
            /\ NodeSet(CommitData(RootCommit(d))) \subseteq blocks[d]
            /\ \A e \in NodeEntries(CommitData(RootCommit(d))) : e[2] \in blocks[d]

\* C3 witness: the root names a tree with a record while another write has
\* persisted some, not all, of its new blocks.
C3_Witness ==
    \E d \in DIDs, p \in Procs :
        /\ roots[d] # Nil
        /\ NodeEntries(CommitData(RootCommit(d))) # {}
        /\ pc[p] = "persist" /\ op[p].did = d
        /\ (loc[p].mem \ loc[p].preloaded) \cap blocks[d] # {}
        /\ ~(loc[p].mem \subseteq blocks[d])

\* C4: the rev stored in RepoRoot only ever increases.  Stated for steps of
\* writes on repositories that were initialised once.  (Violated by the code when two
\* requests commit on one DID concurrently, see C1.)
C4_RevIncreases ==
    [][\A d \in DIDs :
          (roots[d] # Nil /\ roots'[d] # roots[d] /\ OnlyWrites(d))
              => LexLess(roots[d][2], roots'[d][2])]_vars

\* C5: with operations executed one at a time, GetRecord returns the record
\* most recently written at the key if it was not deleted since, and
\* record-not-found otherwise.
C5_GetMatchesLogical ==
    \A d \in DIDs, c \in Collections, r \in AllRkeys :
        (pc[1] = "idle" /\ roots[d] # Nil) =>
            GetRecord(d, c, r) =
                IF Path(c, r) \in DOMAIN logical[d]
                THEN <<"ok", EncodeRecord(logical[d][Path(c, r)]), logical[d][Path(c, r)]>>
                ELSE <<"RecordNotFound">>

\* C5 witness: a record was written and a DeleteRecord of it has returned
\* success.
C5_Witness ==
    /\ pc[1] = "idle"
    /\ res[1].status = "ok" /\ res[1].op.kind = "delete"
    /\ Path(res[1].op.collection, res[1].op.rkey) \notin DOMAIN logical[res[1].op.did]

\* C6: DeleteRecord on a key absent from the repository returns
\* record-not-found, produces no CommitResult and leaves RepoRoot and the
\* persisted blocks as they were.
C6_DeleteAbsent ==
    [][\A p \in Procs :
          (/\ op[p].kind = "delete"
           /\ roots[op[p].did] # Nil
           /\ Path(op[p].collection, op[p].rkey)
                  \notin DOMAIN CommitRecords(RootCommit(op[p].did)))
          => /\ roots' = roots
             /\ blocks' = blocks
             /\ pc'[p] \in {"loadRoot", "loadBlocks", "idle"}
             /\ pc'[p] = "idle" =>
                    /\ res'[p].out = Nil
                    /\ res'[p].status \in {"RecordNotFound", "StorageUnavailable"}]_vars

\* C6 witness: a DeleteRecord has returned record-not-found on a repository
\* that holds another record.
C6_Witness ==
    /\ res[1].status = "RecordNotFound"
    /\ roots[res[1].op.did] # Nil
    /\ DOMAIN logical[res[1].op.did] # {}

\* C7: the op of a CommitResult is classified by the content of the key in
\* the commit the new commit succeeds: create with prev nil on an absent
\* key, update with prev the replaced CID on a present key, delete with cid
\* nil and prev the removed CID.
C7_OpClassified ==
    \A p \in Procs :
        res[p].out # Nil =>
            LET o     == res[p].op
                path  == Path(o.collection, o.rkey)
                prior == TreeGet(LoadTree(CommitData(CommitPrev(res[p].out.commit))), path)
            IN  IF o.kind = "delete"
                THEN prior # Nil /\ res[p].out.ops = <<"delete", path, Nil, prior>>
                ELSE res[p].out.ops =
                        <<IF prior = Nil THEN "create" ELSE "update",
                          path, EncodeRecord(o.record), prior>>

\* C7 witness: a PutRecord on an existing key has returned an update.
C7_Witness ==
    \E p \in Procs :
        /\ res[p].out # Nil
        /\ res[p].out.ops[1] = "update"
        /\ res[p].out.ops[4] # res[p].out.ops[3]

\* C8: the diff archive of a write holds the new commit block, exactly the
\* MST nodes new to the commit and exactly the record block created or
\* updated, also when a block with the same bytes was stored before.
\* (Violated by the code: a block that was in the store when the repository
\* was opened is left out.)
C8_DiffExact ==
    \A p \in Procs :
        res[p].out # Nil =>
            LET r == res[p].out
            IN  CARBlocks(r.diff) =
                    {r.commit}
                    \cup (NodeSet(CommitData(r.commit))
                              \ NodeSet(CommitData(CommitPrev(r.commit))))
                    \cup (IF r.ops[1] = "delete" THEN {} ELSE {r.ops[3]})

\* C9: InitRepo one call after another: the first call on a DID sets a
\* RepoRoot whose commit has prev nil and the empty tree as data; a later
\* call returns success and leaves RepoRoot and the blocks unchanged.
C9_InitIdempotent ==
    [][\A p \in Procs :
          op[p].kind = "init" =>
              IF roots[op[p].did] # Nil
              THEN /\ roots' = roots
                   /\ blocks' = blocks
                   /\ pc'[p] = "idle"
                   /\ res'[p].status \in {"ok", "StorageUnavailable"}
              ELSE roots'[op[p].did] # Nil =>
                       /\ CommitPrev(roots'[op[p].did][1]) = Nil
                       /\ CommitData(roots'[op[p].did][1]) = MSTRoot(EmptyTree)
                       /\ roots'[op[p].did][1] \in blocks'[op[p].did]]_vars

\* C9 witness: InitRepo has returned success on a repository with a record.
C9_Witness ==
    /\ res[1].status = "ok" /\ res[1].op.kind = "init"
    /\ roots[res[1].op.did] # Nil
    /\ DOMAIN logical[res[1].op.did] # {}

\* C10: once a RepoRoot exists, no step of an InitRepo call changes it,
\* under every interleaving: a RepoRoot that points at a commit with records
\* is never replaced by an initial empty commit.  (Violated by the code: the
\* existence check and the upsert of the root are separate database calls.)
C10_InitNeverReplaces ==
    [][\A p \in Procs :
          (/\ op[p].kind = "init"
           /\ roots[op[p].did] # Nil
           /\ NodeEntries(CommitData(RootCommit(op[p].did))) # {})
          => roots' = roots]_vars


\* The operation of request p is a record write.
IsWrite(p) == op[p].kind \in {"put", "create", "delete"}

\* C11: a write that returns an error, or is cancelled, before the RepoRoot
\* update leaves RepoRoot unchanged: the step by which it returns changes no
\* root, a root only changes in the step by which a request returns success
\* (and only the root of that request's DID), and rows of repo_blocks are
\* only ever added.  A write that returns RepoNotFound does so at its first
\* database call and has persisted nothing.
C11_FailedWriteKeepsRoot ==
    [][ /\ \A d \in DIDs : blocks[d] \subseteq blocks'[d]
        /\ \A p \in Procs :
              (IsWrite(p) /\ pc[p] # "idle" /\ pc'[p] = "idle" /\ res'[p].status # "ok")
                  => /\ roots' = roots
                     /\ res'[p].status = "RepoNotFound"
                            => pc[p] = "loadRoot" /\ blocks' = blocks
        /\ roots' # roots
              => \E p \in Procs :
                    /\ pc[p] = "persist" /\ pc'[p] = "idle" /\ res'[p].status = "ok"
                    /\ \A d \in DIDs \ {op[p].did} : roots'[d] = roots[d]
      ]_vars

\* C11 witness: a PutRecord has failed part-way through persisting: its
\* record block is a row of repo_blocks, an orphan the root does not reach.
C11_Witness ==
    \E p \in Procs :
        /\ res[p].status = "StorageUnavailable"
        /\ res[p].op.kind = "put"
        /\ roots[res[p].op.did] # Nil
        /\ EncodeRecord(res[p].op.record) \in blocks[res[p].op.did]
        /\ TreeGet(LoadTree(CommitData(RootCommit(res[p].op.did))),
                   Path(res[p].op.collection, res[p].op.rkey)) = Nil


(* ------------------------ claims: event manager ------------------------ *)

\* C12: seq values are handed out in increasing order: the seq a Persist
\* assigns is greater than the seq of every row of the log and than the seq
\* of every Emit call that got one before (so an Emit that starts after
\* another has returned gets a greater seq), and every row of the log has a
\* seq greater than the rows inserted before it.
C12_SeqMonotonic ==
    [][ /\ \A i, j \in DOMAIN events' : i < j => events'[i].seq < events'[j].seq
        /\ \A p \in Procs :
              (emit[p].pc = "persist" /\ emit'[p].pc = "lock")
                  => /\ \A q \in Procs : emit[q].seq < emit'[p].seq
                     /\ \A i \in DOMAIN events : events[i].seq < emit'[p].seq
                     /\ events'[Len(events')].seq = emit'[p].seq
      ]_vars

\* C12 witness: three Emit calls have returned success (two of them were
\* made one after the other by the same request goroutine).
C12_Witness ==
    /\ Len(events) = 3
    /\ \A p \in Procs : emit[p].pc = "idle" /\ emit[p].status = "ok"

\* The Emit call that persisted seq n has not yet offered its frame to s.
InFlight(n, s) ==
    \E p \in Procs :
        /\ emit[p].seq = n
        /\ \/ emit[p].pc = "lock"
           \/ emit[p].pc = "broadcast" /\ s \in emit[p].todo

\* C13: a subscriber that connected with cursor k, is still connected and
\* was not closed as a slow consumer misses no event with seq > k: once its
\* replay query has run, every such row of the log is on its channel
\* already, or among the rows the replay has still to send, or held by an
\* Emit call that has yet to offer it to the subscriber.
C13_NoGap ==
    \A s \in Subs :
        (/\ sub[s].state = "live"
         /\ sub[s].since # Nil
         /\ ~sub[s].closed
         /\ sub[s].replay \in {"send", "end"})
            => \A i \in DOMAIN events :
                   events[i].seq > sub[s].since[1]
                       => \/ \E j \in DOMAIN sub[s].got : sub[s].got[j].seq = events[i].seq
                          \/ \E j \in DOMAIN sub[s].rows : sub[s].rows[j].seq = events[i].seq
                          \/ InFlight(events[i].seq, s)

\* C14: no subscriber is sent two frames with the same seq.
C14_NoDuplicate ==
    \A s \in Subs : \A i, j \in DOMAIN sub[s].got :
        i # j => sub[s].got[i].seq # sub[s].got[j].seq

\* C15: the frames placed on the channel of one subscriber are strictly
\* increasing in seq, and no replayed frame follows a live frame.
C15_QueueIncreasing ==
    \A s \in Subs : \A i, j \in DOMAIN sub[s].got :
        i < j => /\ sub[s].got[i].seq < sub[s].got[j].seq
                 /\ ~(sub[s].got[i].origin = "live" /\ sub[s].got[j].origin = "replay")

\* C17: Emit never fails in its broadcast: no Emit call ends in a panic.
C17_EmitNeverFails == \A p \in Procs : emit[p].status # "panic"

\* C18: a subscriber whose queue a broadcast found full has its channel
\* closed and its removal started in that step; it is eventually removed
\* from the live set; once it is closed and removed no frame is placed on
\* its channel, and a broadcast ranges only over registered subscribers.
C18_SlowConsumerRemoved ==
    /\ [][ /\ \A s \in Subs :
                 (~sub[s].closed /\ sub'[s].closed) => ~HasRoom(s) /\ s \in removing'
           /\ \A s \in Subs :
                 (sub[s].closed /\ s \notin subs) => sub'[s].got = sub[s].got
           /\ \A p \in Procs :
                 (emit[p].pc = "lock" /\ emit'[p].pc = "broadcast") => emit'[p].todo \subseteq subs
         ]_vars
    /\ \A s \in Subs : sub[s].closed ~> s \notin subs

\* C18 witness: a slow consumer was closed and has been removed by the
\* goroutine of broadcast while its handler is still in the write loop.
C18_Witness ==
    \E s \in Subs : sub[s].closed /\ s \notin subs /\ sub[s].state = "live"

\* C19: a broadcast skips no subscriber that stays connected: when the
\* loop of broadcast is done with a subscriber (it has moved past it, or
\* has ended), the frame is on that subscriber's channel or the channel is
\* closed.
C19_NoFrameSkipped ==
    [][ \A p \in Procs :
            emit[p].pc = "broadcast"
                => \A s \in emit[p].todo \ emit'[p].todo :
                       \/ sub'[s].closed
                       \/ \E j \in DOMAIN sub'[s].got :
                              sub'[s].got[j] = [seq |-> emit[p].seq, origin |-> "live"]
      ]_vars

\* The replay goroutine of s is about to send to a full, open channel, and
\* nothing has cancelled it.
ReplayAtFullQueue(s) ==
    /\ sub[s].replay = "send"
    /\ ~HasRoom(s)
    /\ ~sub[s].closed
    /\ ~Cancelled(s)

\* C20: the replay goroutine does not wait for queue space: with the
\* channel of its subscriber full it can take its step (which cancels the
\* subscriber).
C20_ReplayNeverWaits ==
    \A s \in Subs : ReplayAtFullQueue(s) => ENABLED ReplaySend(s)


\* Commit a is an ancestor of commit b in the chain of prev links.
RECURSIVE Precedes(_, _)
Precedes(a, b) ==
    IF b = Nil \/ CommitPrev(b) = Nil THEN FALSE
    ELSE CommitPrev(b) = a \/ Precedes(a, CommitPrev(b))

\* C16: the events of one DID are in the log in the order of their commits:
\* if the commit of one event precedes the commit of another event of the
\* same DID in the commit chain, its seq is the smaller one.
C16_SeqFollowsCommitOrder ==
    \A i, j \in DOMAIN events :
        (/\ events[i].payload.did = events[j].payload.did
         /\ Precedes(events[i].payload.commit, events[j].payload.commit))
            => events[i].seq < events[j].seq

\* C21: the cancel function returned by Subscribe removes the subscriber
\* from the live set and closes its frame channel: once cancel has returned
\* the subscriber is not registered and a reader of its channel finds the
\* channel closed.
C21_CancelCloses ==
    \A s \in Subs : sub[s].state = "gone" => s \notin subs /\ sub[s].closed

\* C22: when the context passed to Subscribe is cancelled, the subscriber
\* is removed from the live set and its channel is closed: a connection
\* whose context was cancelled and whose handler has finished is not
\* registered and its frame channel is closed.
C22_CtxCancelCloses ==
    \A s \in Subs :
        (sub[s].ctx /\ sub[s].state = "gone") => (s \notin subs /\ sub[s].closed)

\* C23: Manager.Shutdown closes the channel of every registered subscriber
\* and leaves the live set empty: in the step of Shutdown every subscriber
\* that was registered has its channel closed afterwards and no subscriber
\* is registered any more.
C23_ShutdownClosesAll ==
    [][ (~stopped /\ stopped')
            => (subs' = {} /\ \A s \in subs : sub'[s].closed) ]_vars

\* C24: if persisting fails, Emit returns an error and broadcasts nothing
\* (the failing step changes no channel and adds no row); every frame
\* placed on a subscriber's channel belongs to an event that is in the log
\* already and carries exactly the seq of that row.
C24_OnlyPersistedBroadcast ==
    [][ /\ \A p \in Procs :
               (emit[p].pc = "persist" /\ emit'[p].pc = "idle")
                   => /\ emit'[p].status = "error"
                      /\ sub' = sub
                      /\ events' = events
        /\ \A s \in Subs :
               Len(sub'[s].got) > Len(sub[s].got)
                   => LET f == sub'[s].ch[Len(sub'[s].ch)]
                      IN  \E i \in DOMAIN events :
                              /\ events[i].seq = f.seq
                              /\ events[i].payload = [f EXCEPT !.seq = 0]
      ]_vars

\* C24 witness: an Emit call has returned the error of Persist, and a
\* subscriber has been sent a replayed frame and a live frame.
C24_Witness ==
    /\ \E p \in Procs : emit[p].status = "error"
    /\ \E s \in Subs : \E i, j \in DOMAIN sub[s].got :
           sub[s].got[i].origin = "replay" /\ sub[s].got[j].origin = "live"

\* C28: in every interleaving of Emit, the replay goroutine, cancel and
\* Shutdown no subscriber channel is closed twice and no frame is sent on a
\* closed channel: no goroutine has panicked (a close of a closed channel
\* in Shutdown and a send on a closed channel in the replay goroutine end
\* the process, a send on a closed channel in broadcast ends the Emit call).
C28_NoUseAfterClose ==
    /\ ~crashed
    /\ \A p \in Procs : emit[p].status # "panic"

\* The auth context ac is the administrator's or that of the account did.
OwnerOrAdmin(ac, did) == IF ac = Nil THEN FALSE ELSE ac.IsAdmin \/ ac.DID = did

C27_OnePoolPerDomain ==
    (\A p \in Procs : adds[p].pc = "idle")
        => openPools = {pools[d] : d \in {x \in Domains : pools[x] # Nil}}

\* The key k is collection + "/" followed by a record key.
InCollection(k, collection) ==
    /\ Len(k) > Len(collection)
    /\ \A i \in 1..Len(collection) : k[i] = collection[i]
    /\ k[Len(collection) + 1] = Slash

\* The record keys of a collection of the committed records of did, in
\* the order of one walk in the given direction.
WalkOf(did, collection, reverse) ==
    LET ks  == SortedKeys({k \in DOMAIN logical[did] : InCollection(k, collection)})
        fwd == [i \in 1..Len(ks) |-> SubSeq(ks[i], Len(collection) + 2, Len(ks[i]))]
    IN  IF reverse THEN [i \in 1..Len(fwd) |-> fwd[Len(fwd) + 1 - i]] ELSE fwd

\* C26: on an unchanging repository, for every limit and both directions,
\* iterating ListRecords with the successive next cursors until none is
\* returned yields every record of the collection exactly once, in the
\* order of a single walk: the pages so far are a prefix of the walk, a
\* page that comes with a cursor is not empty, and at the end the pages
\* are the whole walk.
C26_PaginationComplete ==
    (list.pc \in {"more", "done"} /\ list.status = "ok")
        => LET w == WalkOf(list.did, list.collection, list.reverse)
           IN  /\ Len(list.acc) <= Len(w)
               /\ list.acc = SubSeq(w, 1, Len(list.acc))
               /\ list.pc = "more" => list.records # <<>>
               /\ list.pc = "done" => list.acc = w

\* C26 witness: an iteration in reverse over a collection of four records
\* with the default limit has ended, after more than one page.
C26_Witness ==
    /\ list.pc = "done"
    /\ list.reverse
    /\ list.limit = 0
    /\ list.cursor # Nil
    /\ Len(list.acc) = 4

\* C29: for every cursor passed to ListRecords, including one that names
\* no record, the page starts strictly after the cursor: every record of
\* the page has a key greater than the cursor, smaller with reverse.
C29_PageAfterCursor ==
    (list.status = "ok" /\ list.cursor # Nil)
        => \A j \in DOMAIN list.records :
               IF list.reverse THEN LexLess(list.records[j].rkey, list.cursor)
               ELSE LexLess(list.cursor, list.records[j].rkey)

\* C30: ListRecords returns only records whose key starts with the
\* collection and "/", in ascending order of the keys (descending with
\* reverse), and never more than the effective limit: the given limit when
\* it is between 1 and the maximum, the default otherwise.
C30_PageWellFormed ==
    list.status = "ok"
        => LET Key(j) == list.records[j].uri[2]
           IN  /\ \A j \in DOMAIN list.records : InCollection(Key(j), list.collection)
               /\ \A i, j \in DOMAIN list.records :
                      i < j => IF list.reverse THEN LexLess(Key(j), Key(i))
                               ELSE LexLess(Key(i), Key(j))
               /\ Len(list.records) <=
                      (IF list.limit \in 1..ListMax THEN list.limit ELSE ListDefault)

\* C30 witness: a call with a limit above the maximum, on a collection
\* with more records than the default limit in a repository that holds a
\* record of another collection, has returned a page cut at the default.
C30_Witness ==
    /\ list.status = "ok"
    /\ list.limit > ListMax
    /\ Len(list.records) = ListDefault
    /\ list.next # Nil
    /\ Path(<<2, 2>>, <<2>>) \in DOMAIN logical[list.did]

\* C31: ListRecords returns a next cursor exactly when at least one more
\* record of the collection follows the last record of the page in the
\* order of the iteration, and the cursor is then the record key of the
\* last record of the page.
C31_CursorIffMore ==
    list.status = "ok"
        => LET w    == WalkOf(list.did, list.collection, list.reverse)
               n    == Len(list.records)
               more == /\ n > 0
                       /\ \E i \in DOMAIN w :
                              w[i] = list.records[n].rkey /\ i < Len(w)
           IN  /\ list.next # Nil <=> more
               /\ list.next # Nil => list.next = list.records[n].rkey

\* C31 witness: a page asked for with a cursor, in reverse, has come full
\* and with a next cursor.
C31_Witness ==
    /\ list.status = "ok"
    /\ list.cursor # Nil
    /\ list.reverse
    /\ list.next # Nil
    /\ Len(list.records) = ListDefault

\* C32: persisted blocks are immutable and never deleted: in every step
\* the block rows of every DID only grow (a row is a CID with its bytes),
\* and persisting a block set whose blocks are all rows already leaves the
\* table unchanged.
C32_BlocksOnlyGrow ==
    [][ /\ \A d \in DIDs : blocks[d] \subseteq blocks'[d]
        /\ (\A p \in Procs : pc[p] = "persist" => loc[p].mem \subseteq blocks[op[p].did])
              => blocks' = blocks
      ]_vars

\* C32 witness: a PutRecord is in PersistAll with a record block that was
\* a row before the repository was opened, and all its blocks are rows.
C32_Witness ==
    \E p \in Procs :
        /\ pc[p] = "persist"
        /\ op[p].kind = "put"
        /\ EncodeRecord(op[p].record) \in loc[p].preloaded
        /\ loc[p].mem \subseteq blocks[op[p].did]

\* ---------------------------------------------------------------------
\* Export of archives
\* ---------------------------------------------------------------------

\* The orders in which a loop over a map of the blocks S can visit them.
Orders(S) ==
    {s \in [1..Cardinality(S) -> S] : \A i, j \in DOMAIN s : s[i] = s[j] => i = j}

\* What the writer has received from an export: the header with the root,
\* then the blocks in the order of the writes.  The loop over the store
\* visits the blocks in an order the runtime chooses.
Archives(car) ==
    IF car.status # "ok"
    THEN {[status |-> car.status, roots |-> <<>>, blocks |-> <<>>]}
    ELSE {[status |-> "ok", roots |-> <<car.root>>, blocks |-> <<car.root>> \o s] :
              s \in Orders(car.rest)}

\* The stores exported: any part of the repository of did:a after one
\* write, which holds two commits.
CarKey == Path(<<2>>, <<2>>)
CarRepo == RepoAfter("did:a", <<CarKey>>)
CarStore == CarRepo.blocks
CarCommits == {b \in CarStore : IsCommit(b)}

\* MemBlockstore.ExportCAR of the store mem with the root commitCID.
ExportFull(mem, commitCID) ==
    /\ archive.kind = "none"
    /\ \E out \in Archives(ExportCAR(mem, commitCID)) :
           archive' = [kind |-> "full", mem |-> mem, preloaded |-> {},
                       commit |-> commitCID, out |-> out]
    /\ UNCHANGED <<caller, pools, openPools, adds, stopped, list, replay, wire>>
    /\ UNCHANGED repovars
    /\ UNCHANGED firevars

\* TrackingBlockstore.ExportDiffCAR of the store mem, of which the blocks
\* preloaded were loaded from the database.
ExportDiff(mem, preloaded, commitCID) ==
    /\ archive.kind = "none"
    /\ \E out \in Archives(ExportDiffCAR(mem, preloaded, commitCID)) :
           archive' = [kind |-> "diff", mem |-> mem, preloaded |-> preloaded,
                       commit |-> commitCID, out |-> out]
    /\ UNCHANGED <<caller, pools, openPools, adds, stopped, list, replay, wire>>
    /\ UNCHANGED repovars
    /\ UNCHANGED firevars

CarNext ==
    \E mem \in SUBSET CarStore, commitCID \in CarCommits :
        \/ ExportFull(mem, commitCID)
        \/ \E preloaded \in SUBSET mem : ExportDiff(mem, preloaded, commitCID)

\* The server with that repository stored and no request running.
CarInit ==
    /\ FireInit
    /\ SrvInit
    /\ roots = [d \in DIDs |-> IF d = "did:a" THEN <<CarRepo.commit, TID(CarRepo.n)>>
                               ELSE Nil]
    /\ blocks = [d \in DIDs |-> IF d = "did:a" THEN CarStore ELSE {}]
    /\ logical = [d \in DIDs |-> IF d = "did:a"
                                 THEN [k \in {CarKey} |-> DecodeRecord(CarRepo.tree[k])]
                                 ELSE EmptyTree]
    /\ now = CarRepo.n
    /\ elapsed = TRUE
    /\ pc = [p \in Procs |-> "idle"]
    /\ op = [p \in Procs |-> NoOp]
    /\ loc = [p \in Procs |-> NoLoc]
    /\ res = [p \in Procs |-> NoRes]
    /\ nops = 0

CarSpec == CarInit /\ [][CarNext]_vars

\* The number of times the block b was written to the archive out.
Written(out, b) == Cardinality({i \in DOMAIN out.blocks : out.blocks[i] = b})

\* The blocks an export has to write besides the root.
Exported ==
    IF archive.kind = "full" THEN archive.mem \ {archive.commit}
    ELSE (archive.mem \ archive.preloaded) \ {archive.commit}

\* C33: a full export and a diff export both write the root (commit) block
\* as the first block of the archive and every other exported block exactly
\* once; when the root block is not in the store the export returns an error.
C33_RootFirstOthersOnce ==
    archive.kind # "none"
        => /\ archive.commit \notin archive.mem => archive.out.status # "ok"
           /\ archive.out.status = "ok"
                  => /\ archive.out.roots = <<archive.commit>>
                     /\ archive.out.blocks[1] = archive.commit
                     /\ Written(archive.out, archive.commit) = 1
                     /\ \A b \in Exported : Written(archive.out, b) = 1
                     /\ \A i \in DOMAIN archive.out.blocks :
                            archive.out.blocks[i] \in Exported \cup {archive.commit}

C33_Witness ==
    /\ archive.kind = "diff"
    /\ archive.out.status = "ok"
    /\ archive.commit \in archive.preloaded
    /\ Len(archive.out.blocks) = 3

\* ---------------------------------------------------------------------
\* Reads concurrent with writes
\* ---------------------------------------------------------------------

\* strings.Index(k, "/")
IndexSlash(k) ==
    LET at == {i \in DOMAIN k : k[i] = Slash} \cup {Len(k) + 1}
    IN  CHOOSE i \in at : \A j \in at : i <= j

\* DescribeRepo after loadRoot: the collections of the keys of the tree.
DescribeRepoAt(c, mem) ==
    IF c \notin mem \/ ~LoadTreeOK(mem, CommitData(c))
    THEN <<"MissingBlock">>
    ELSE LET tree == LoadTree(CommitData(c))
         IN  <<"ok", {SubSeq(k, 1, IndexSlash(k) - 1) :
                         k \in {x \in DOMAIN tree : IndexSlash(x) > 1
                                                     /\ IndexSlash(x) <= Len(x)}}>>

\* What the read o returns from the blocks mem, loaded after the root row
\* that names the commit c.
ReadAt(o, c, mem) ==
    CASE o.kind = "get" ->
             LET r == GetRecordAt(c, mem, o.collection, o.rkey)
             IN  [status |-> r[1], val |-> r]
      [] o.kind = "list" ->
             LET r == ListRecordsAt(o.did, c, mem, o.collection, 0, Nil, FALSE)
             IN  [status |-> r.status, val |-> r]
      [] o.kind = "describe" ->
             LET r == DescribeRepoAt(c, mem)
             IN  [status |-> r[1], val |-> r]
      [] OTHER ->
             LET r == ExportCAR(mem, c)
             IN  [status |-> r.status, val |-> r]

\* A read request is made.
StartRead(p, D) ==
    /\ SameClock
    /\ \E did \in D :
           LET Read(kind, collection, rkey) ==
                   Begin(p, [kind |-> kind, did |-> did, collection |-> collection,
                             rkey |-> rkey, record |-> "", keyOK |-> TRUE], "loadRoot")
           IN  \/ \E c \in Collections, r \in Rkeys : Read("get", c, r)
               \/ \E c \in Collections : Read("list", c, Nil)
               \/ Read("describe", Nil, Nil)
               \/ Read("export", Nil, Nil)

\* The rest of a read: LoadBlocks, one query, and the work on its result.
\* The request returns what it read together with the root it read it under.
ReadBlocks(p) ==
    LET r == ReadAt(op[p], loc[p].root[1], blocks[op[p].did])
    IN
    /\ pc[p] = "readBlocks"
    /\ Tick
    /\ Return(p, r.status, [root |-> loc[p].root[1], val |-> r.val])
    /\ UNCHANGED <<roots, blocks, nops, logical>>
    /\ UNCHANGED firevars
    /\ UNCHANGED srvvars

\* Process 1 writes and process 2 reads.
ReadNext ==
    \/ Start(1, Contended)
    \/ Step(1)
    \/ StartRead(2, Contended)
    \/ LoadRoot(2)
    \/ ReadBlocks(2)
    \/ DbFail(2)

\* Reads of the repository of did:a while it is created and written; the
\* repository is absent or stored with one record when the requests begin.
ReadInit == Init \/ CarInit

ReadSpec == ReadInit /\ [][ReadNext]_vars

\* The blocks of the repository under commit c: the commit block, the nodes
\* of its tree and the blocks of its records.
RepoBlocks(c) ==
    LET T == LoadTree(CommitData(c))
    IN  {c} \cup NodeSet(CommitData(c)) \cup {T[k] : k \in DOMAIN T}

\* What the read o returns of the committed state c, all of whose blocks
\* are at hand.
ContentOf(o, c) == ReadAt(o, c, RepoBlocks(c))

\* The read of request p has returned something other than an error of the
\* database.
HasRead(p) ==
    /\ res[p].op.kind \in ReadKinds
    /\ res[p].status \notin {"none", "RepoNotFound", "StorageUnavailable"}

\* C34: a read (GetRecord, ListRecords, DescribeRepo, ExportRepo) running
\* while the same repository is written, which takes no lock and reads the
\* root row and the blocks in two steps, finds the commit block, the nodes
\* and the record blocks of the root it read, and returns the content of
\* that one committed state: never a missing block, never a mixture.
C34_ReadsOneCommittedState ==
    \A p \in Procs :
        HasRead(p)
            => LET o == res[p].op
                   c == res[p].out.root
               IN  /\ res[p].status # "MissingBlock"
                   /\ IF o.kind = "export"
                      THEN /\ res[p].out.val.root = c
                           /\ RepoBlocks(c) \subseteq CARBlocks(res[p].out.val)
                      ELSE res[p].out.val = ContentOf(o, c).val

\* A list that read the root before a write and the blocks after it.
C34_Witness ==
    \E p \in Procs :
        /\ HasRead(p)
        /\ res[p].op.kind = "list"
        /\ Len(res[p].out.val.records) = 1
        /\ roots[res[p].op.did][1] # res[p].out.root
        /\ ~(blocks[res[p].op.did] \subseteq RepoBlocks(res[p].out.root))
        /\ Cardinality(DOMAIN CommitRecords(roots[res[p].op.did][1])) = 2

\* ---------------------------------------------------------------------
\* Persister.Replay with any callback
\* ---------------------------------------------------------------------

\* The cursors given to Replay.
ReplaySinces == (0 - 1)..MaxEmits

\* Replay is called.
ReplayBegin(since) ==
    /\ replay.pc = "idle"
    /\ replay' = [NoReplay EXCEPT !.pc = "query", !.since = since]
    /\ UNCHANGED <<caller, pools, openPools, adds, stopped, list, archive, wire>>
    /\ UNCHANGED repovars
    /\ UNCHANGED firevars

\* The SELECT: the rows with seq > since that the table holds now, in
\* ascending order of seq.
ReplaySelect ==
    /\ replay.pc = "query"
    /\ replay' = [replay EXCEPT !.pc = "rows", !.n = Len(events),
                                !.rows = ReplayRows(replay.since)]
    /\ UNCHANGED <<caller, pools, openPools, adds, stopped, list, archive, wire>>
    /\ UNCHANGED repovars
    /\ UNCHANGED firevars

\* The query fails, or the rows end with an error before the last of them
\* is reached: Replay returns that error.
ReplayFail ==
    /\ \/ replay.pc = "query"
       \/ replay.pc = "rows" /\ replay.rows # <<>>
    /\ replay' = [replay EXCEPT !.pc = "done", !.rows = <<>>, !.result = "db"]
    /\ UNCHANGED <<caller, pools, openPools, adds, stopped, list, archive, wire>>
    /\ UNCHANGED repovars
    /\ UNCHANGED firevars

\* "if err := fn(frame); err != nil { return err }"
ReplayGoesOn(ok) == FALSE
ReplayStops(ok) == ~ok

\* One turn of the loop: the next row is decoded, given its seq and encoded,
\* and fn is called with the frame; fn returns nil (ok) or an error.
ReplayCall(ok) ==
    /\ replay.pc = "rows"
    /\ replay.rows # <<>>
    /\ replay' = IF ReplayStops(ok)
                 THEN [replay EXCEPT
                          !.calls = Append(@, [frame |-> Head(replay.rows), ok |-> ok]),
                          !.pc = "done", !.rows = <<>>, !.result = "fn"]
                 ELSE [replay EXCEPT
                          !.calls = Append(@, [frame |-> Head(replay.rows), ok |-> ok]),
                          !.rows = Tail(@)]
    /\ UNCHANGED <<caller, pools, openPools, adds, stopped, list, archive, wire>>
    /\ UNCHANGED repovars
    /\ UNCHANGED firevars

\* rows.Next() returns false after the last row: Replay returns nil.
ReplayReturn ==
    /\ replay.pc = "rows"
    /\ replay.rows = <<>>
    /\ replay' = [replay EXCEPT !.pc = "done"]
    /\ UNCHANGED <<caller, pools, openPools, adds, stopped, list, archive, wire>>
    /\ UNCHANGED repovars
    /\ UNCHANGED firevars

\* One call of Replay while process 1 emits events, for any repository, to
\* one connection without cursor.
ReplayNext ==
    \/ (\E info \in FireInfos(DIDs) : BeginEmit(1, info)) \/ EmitStep(1)
    \/ \E s \in Single : LiveStep(s)
    \/ \E since \in ReplaySinces : ReplayBegin(since)
    \/ ReplaySelect
    \/ ReplayFail
    \/ \E ok \in BOOLEAN : ReplayCall(ok)
    \/ ReplayReturn

ReplaySpec == Init /\ [][ReplayNext]_vars

\* The rows Replay has to go through: those with seq > since among the
\* rows the table held when the SELECT ran.
Due == {i \in 1..replay.n : events[i].seq > replay.since}

\* The frames of the calls of fn made and of the rows still to come.
Turns == [i \in DOMAIN replay.calls |-> replay.calls[i].frame] \o replay.rows

\* C35: Replay(since, fn) calls fn once for every row with seq > since, in
\* ascending order of seq, with a frame that carries the seq of its row; as
\* soon as fn returns an error Replay stops, returns that error and calls fn
\* for no later row.
C35_ReplayEachRowUntilError ==
    replay.pc \in {"rows", "done"}
        => /\ \A i \in DOMAIN replay.calls :
                  \E j \in Due : /\ replay.calls[i].frame.seq = events[j].seq
                                 /\ replay.calls[i].frame.commit = events[j].payload.commit
                                 /\ replay.calls[i].frame.did = events[j].payload.did
           /\ \A i, j \in DOMAIN replay.calls :
                  i < j => /\ replay.calls[i].frame.seq < replay.calls[j].frame.seq
                           /\ replay.calls[i].ok
           /\ replay.result \in {"nil", "fn"} /\ (replay.pc = "rows" \/ replay.result = "nil")
                  => /\ Len(Turns) = Cardinality(Due)
                     /\ \A j \in Due : \E i \in DOMAIN Turns : Turns[i].seq = events[j].seq
           /\ replay.pc = "done" /\ replay.result = "nil"
                  => /\ replay.rows = <<>>
                     /\ \A i \in DOMAIN replay.calls : replay.calls[i].ok
           /\ (\E i \in DOMAIN replay.calls : ~replay.calls[i].ok)
                  => replay.pc = "done" /\ replay.result = "fn"

\* fn failed at its second call, with a third row still to come.
C35_Witness ==
    /\ replay.pc = "done"
    /\ replay.result = "fn"
    /\ Len(replay.calls) = 2
    /\ Cardinality(Due) = 3

\* ---------------------------------------------------------------------
\* The frame of an event, broadcast and replayed
\* ---------------------------------------------------------------------

\* A slice: nil, or of the elements e (an empty slice is not nil).
NilSlice == [nil |-> TRUE, elems |-> <<>>]
MakeSlice(e) == [nil |-> FALSE, elems |-> e]

\* emitCommitEvent: the events.CommitInfo of a CommitResult, with the time
\* of the call.
FullCommitInfo(did, result, t) ==
    [did |-> did, rev |-> result.rev, prevRev |-> result.prevRev,
     commit |-> result.commit, prevData |-> result.prevData,
     diff |-> MakeSlice(<<result.diff>>),
     ops |-> MakeSlice(<<[action |-> result.ops[1], path |-> result.ops[2],
                          cid |-> result.ops[3], prev |-> result.ops[4]]>>),
     time |-> t]

\* Emit: the SyncSubscribeRepos_Commit built from the CommitInfo.  Its Seq
\* is not set; ops and blobs are made slices, since and prevData are
\* pointers, nil (Nil) for an empty prevRev and for no prevData.
Message(info) ==
    [seq |-> 0, repo |-> info.did, rev |-> info.rev, commit |-> info.commit,
     blocks |-> info.diff,
     ops |-> MakeSlice(info.ops.elems),
     blobs |-> MakeSlice(<<>>),
     since |-> IF info.prevRev = Nil THEN Nil ELSE <<info.prevRev>>,
     prevData |-> IF info.prevData = Nil THEN Nil ELSE <<info.prevData>>,
     time |-> info.time, rebase |-> FALSE, tooBig |-> FALSE]

\* MarshalCBOR of the message: a slice is written as its length and its
\* elements, a nil pointer as null (since, the cid of an op) or left out
\* (prevData, the prev of an op).
MarshalCBORNullForNil(m) ==
    LET Write(x) == IF x.nil THEN <<"null">> ELSE x.elems
    IN  [m EXCEPT !.blocks = Write(m.blocks), !.ops = Write(m.ops),
                  !.blobs = Write(m.blobs)]
MarshalCBOR(m) ==
    [m EXCEPT !.blocks = m.blocks.elems, !.ops = m.ops.elems, !.blobs = m.blobs.elems]

\* UnmarshalCBOR into a zero message: a slice of length 0 stays nil.
UnmarshalCBOR(b) ==
    LET Read(e) == IF e = <<>> THEN NilSlice ELSE MakeSlice(e)
    IN  [b EXCEPT !.blocks = Read(b.blocks), !.ops = Read(b.ops),
                  !.blobs = Read(b.blobs)]

\* encodeFrame: the header, then the message.
EncodeFrame(m) ==
    [header |-> [op |-> 1, t |-> "#commit"], body |-> MarshalCBOR(m)]

\* Emit of the CommitResult that request 1 has returned: the message is
\* stored without seq, then given the seq of its row and broadcast.
WireEmit(seq) ==
    LET m == Message(FullCommitInfo(res[1].op.did, res[1].out, now))
    IN  /\ wire.pc \in {"idle", "replayed"}
        /\ pc[1] = "idle"
        /\ IsCommitResult(1)
        /\ wire' = [pc |-> "emitted", seq |-> seq, payload |-> MarshalCBOR(m),
                    live |-> EncodeFrame([m EXCEPT !.seq = seq]), replayed |-> Nil]
        /\ UNCHANGED <<caller, pools, openPools, adds, stopped, list, archive, replay>>
        /\ UNCHANGED repovars
        /\ UNCHANGED firevars

\* Replay reaches the row: the payload is decoded, given the seq of the row
\* and encoded as a frame.
WireReplay ==
    /\ wire.pc = "emitted"
    /\ wire' = [wire EXCEPT
                   !.pc = "replayed",
                   !.replayed = EncodeFrame([UnmarshalCBOR(wire.payload)
                                                 EXCEPT !.seq = wire.seq])]
    /\ UNCHANGED <<caller, pools, openPools, adds, stopped, list, archive, replay>>
    /\ UNCHANGED repovars
    /\ UNCHANGED firevars

\* Writes made one after another, the event of any of them emitted and then
\* replayed.
WireNext ==
    \/ SeqNext
    \/ \E seq \in 1..MaxEmits : WireEmit(seq)
    \/ WireReplay

WireSpec == Init /\ [][WireNext]_vars

CreateOf(p) ==
    IF op[p].kind = "create" THEN op[p]
    ELSE IF res[p].op.kind = "create" /\ res[p].op.keyOK /\ ValidRecord(res[p].op.record)
    THEN res[p].op
    ELSE NoOp

\* C37: CreateRecord never replaces a record: the rkeys generated by
\* CreateRecord calls on one repository and collection, successive or
\* concurrent, are pairwise distinct, and the op of every CreateRecord has the
\* action create with no prev.
C37_CreateNeverReplaces ==
    /\ \A p, q \in Procs :
           (/\ p # q
            /\ CreateOf(p).kind = "create" /\ CreateOf(q).kind = "create"
            /\ CreateOf(p).did = CreateOf(q).did
            /\ CreateOf(p).collection = CreateOf(q).collection)
               => CreateOf(p).rkey # CreateOf(q).rkey
    /\ \A p \in Procs :
           (res[p].op.kind = "create" /\ IsCommitResult(p))
               => res[p].out.ops[1] = "create" /\ res[p].out.ops[4] = Nil

\* ---------------------------------------------------------------------
\* Collections and record keys as the requests give them
\* ---------------------------------------------------------------------

\* The handlers pass on any collection and rkey that is not empty, and the
\* engine joins them as they are:  2  and  2/2  are both accepted as a
\* collection and as an rkey.
PathNames == {<<2>>, <<2, Slash, 2>>}

\* Writes, reads left aside, made one after another on the repository of
\* did:a with any of those names.
PathNext ==
    \/ StartInit(1, "did:a", TRUE)
    \/ \E c \in PathNames, r \in PathNames :
           \/ \E v \in Records : StartPut(1, "did:a", c, r, v, TRUE)
           \/ StartDelete(1, "did:a", c, r, TRUE)
    \/ Step(1)

PathSpec == Init /\ [][PathNext]_vars

\* C38: distinct pairs of collection and rkey address distinct records: the
\* keys collection/rkey of different pairs differ, and a write to one pair
\* does not create, replace or delete the record read back under another.
C38_PairsAddressDistinctRecords ==
    [][\A p \in Procs :
           (/\ pc[p] = "persist" /\ pc'[p] = "idle" /\ res'[p].status = "ok"
            /\ op[p].kind \in {"put", "create", "delete"})
               => \A c \in PathNames, r \in PathNames :
                      <<c, r>> # <<op[p].collection, op[p].rkey>>
                          => /\ Path(c, r) # Path(op[p].collection, op[p].rkey)
                             /\ GetRecordAt(roots'[op[p].did][1], blocks'[op[p].did], c, r)
                                    = GetRecordAt(roots[op[p].did][1], blocks[op[p].did], c, r)
      ]_vars


\* ---------------------------------------------------------------------
\* Writes to different repositories
\* ---------------------------------------------------------------------

\* Request 1 works on the repository of did:a while request 2 works on that
\* of did:b, both in the database of one tenant.
ApartNext ==
    \/ Start(1, {"did:a"})
    \/ Start(2, {"did:b"})
    \/ \E p \in Procs : Step(p)

ApartSpec == Init /\ [][ApartNext]_vars

\* The rows of did, in repo_roots and in repo_blocks.
Rows(did) == <<roots[did], blocks[did]>>

\* C39: a write or an InitRepo on the DID d changes only rows keyed by d:
\* the root rows and the block rows of every other DID stay as they are.
C39_OnlyRowsOfTheDID ==
    [][\A d \in DIDs :
           Rows(d)' # Rows(d)
               => /\ \E p \in Procs : op[p].did = d /\ pc[p] = "persist"
                  /\ \A e \in DIDs \ {d} : Rows(e)' = Rows(e)
      ]_vars

\* A record is being written to the repository of did:a while that of
\* did:b is stored and request 2 is not writing.
C39_Witness ==
    /\ pc[1] = "persist" /\ op[1].kind = "put" /\ op[1].did = "did:a"
    /\ loc[1].mem \subseteq blocks["did:a"]
    /\ pc[2] = "idle"
    /\ roots["did:b"] # Nil
    /\ blocks["did:b"] # {}


\* ---------------------------------------------------------------------
\* The replay goroutine after cancel
\* ---------------------------------------------------------------------

\* The steps of the goroutine that Subscribe starts for a cursor.
ReplayGo(s) == ReplayQuery(s) \/ ReplayQueryFail(s) \/ ReplaySend(s)

\* CtxSpec with the replay goroutine scheduled: when it can take a step it
\* takes one.  Nothing makes the client read or the handler return.
FairReplaySpec == CtxSpec /\ \A s \in Single : WF_vars(ReplayGo(s))

\* The replay goroutine of s is running.
Replaying(s) == sub[s].replay \in {"query", "send"}

\* C40: once the cancel of a subscriber has been called, its replay
\* goroutine comes to an end, also when it waits to place a frame on a full
\* channel that nobody reads.  (A send on a channel that broadcast has
\* closed ends it together with the process.)
C40_ReplayEndsAfterCancel ==
    \A s \in Single : (sub[s].done /\ Replaying(s)) ~> (~Replaying(s) \/ crashed)

\* Cancel has run while the goroutine waits with a frame for the full
\* channel of a handler that has returned.
C40_Witness ==
    \E s \in Single :
        /\ sub[s].done
        /\ sub[s].state = "gone"
        /\ sub[s].replay = "send"
        /\ ~sub[s].closed
        /\ ~HasRoom(s)
        /\ ~crashed

====
